---- MODULE Spec2Model ----
(***************************************************************************)
(* Model of the JNI binding layer bindings/java/unicorn_Unicorn.c: the     *)
(* hook_wrapper records, the three hook_add overloads, _hook_del,          *)
(* _hookwrapper_free, _mmio_map, the dispatch trampolines and _emu_start.  *)
(* The emulation engine (uc_hook_add, uc_hook_del, uc_mmio_map,            *)
(* uc_emu_start, uc_strerror) is an external collaborator and is modelled  *)
(* as an environment.                                                      *)
(***************************************************************************)
EXTENDS Integers, Sequences, FiniteSets, TLC

\* ------------------------------------------------------------------ bounds
\* number of hook_wrapper records allocated at one time
MaxRecs == 2
\* number of distinct MMIO regions the caller maps
MaxRegions == 1

\* --------------------------------------------------------------- constants
\* a null struct hook_wrapper * / a jlong handle of 0 / a uc_hook never set
NULL == 0
\* a null jobject / jmethodID
NoObj == "NULL"

UC_HOOK_INTR == 1
UC_HOOK_INSN == 2
UC_HOOK_CODE == 4
UC_HOOK_BLOCK == 8
UC_HOOK_MEM_INVALID == 1008
UC_HOOK_MEM_VALID == 7168
UC_HOOK_INSN_INVALID == 16384
UC_HOOK_EDGE_GENERATED == 32768
UC_HOOK_TCG_OPCODE == 65536
UC_HOOK_TLB_FILL == 131072
UC_PROT_ALL == 7

RecIds == 1..MaxRecs
Regions == 1..MaxRegions

\* jint hook types the caller passes: every single event type, subsets and
\* the whole of the two memory masks, a valid|invalid mix, MEM_READ_AFTER,
\* CODE|BLOCK and 0
HookTypes ==
    { 0, UC_HOOK_INTR, UC_HOOK_INSN, UC_HOOK_CODE, UC_HOOK_BLOCK, 12,
      16, UC_HOOK_MEM_INVALID, 2048, UC_HOOK_MEM_VALID, 1040, 8192,
      UC_HOOK_INSN_INVALID, UC_HOOK_EDGE_GENERATED, UC_HOOK_TCG_OPCODE,
      UC_HOOK_TLB_FILL }

\* the types passed to the two overloads that each accept one type only
OtherTypes == { 0, UC_HOOK_INTR, UC_HOOK_CODE, UC_HOOK_MEM_VALID, UC_HOOK_INSN_INVALID }

\* instruction identifiers passed as the arg of the second overload
InsnIds ==
    { "UC_X86_INS_IN", "UC_X86_INS_OUT", "UC_X86_INS_SYSCALL",
      "UC_X86_INS_SYSENTER", "UC_X86_INS_CPUID", "UC_ARM64_INS_MRS",
      "UC_ARM64_INS_MSR", "UC_ARM64_INS_SYS", "UC_ARM64_INS_SYSL",
      "UC_X86_INS_NOP" }

\* non-OK statuses the engine hands back
EngineErrs == { "UC_ERR_NOMEM", "UC_ERR_ARG" }

\* ------------------------------------------------------------- bit helpers
RECURSIVE BitAnd(_, _)
BitAnd(a, b) ==
    IF a = 0 \/ b = 0 THEN 0
    ELSE (IF a % 2 = 1 /\ b % 2 = 1 THEN 1 ELSE 0)
         + 2 * BitAnd(a \div 2, b \div 2)

\* a & ~m for a non-negative a
BitAndNot(a, m) == a - BitAnd(a, m)

\* ------------------------------------------------------ method signatures
sig_InterruptHook == "(Lunicorn/Unicorn;ILjava/lang/Object;)V"
sig_InHook == "(Lunicorn/Unicorn;IILjava/lang/Object;)I"
sig_OutHook == "(Lunicorn/Unicorn;IIILjava/lang/Object;)V"
sig_SyscallHook == "(Lunicorn/Unicorn;Ljava/lang/Object;)V"
sig_CpuidHook == "(Lunicorn/Unicorn;Ljava/lang/Object;)I"
sig_Arm64SysHook == "(Lunicorn/Unicorn;ILunicorn/Arm64_CP;Ljava/lang/Object;)I"
sig_CodeHook == "(Lunicorn/Unicorn;JILjava/lang/Object;)V"
sig_EventMemHook == "(Lunicorn/Unicorn;IJIJLjava/lang/Object;)Z"
sig_MemHook == "(Lunicorn/Unicorn;IJIJLjava/lang/Object;)V"
sig_InvalidInstructionHook == "(Lunicorn/Unicorn;Ljava/lang/Object;)Z"
sig_EdgeGeneratedHook ==
    "(Lunicorn/Unicorn;Lunicorn/TranslationBlock;Lunicorn/TranslationBlock;Ljava/lang/Object;)V"
sig_TcgOpcodeHook == "(Lunicorn/Unicorn;JJJILjava/lang/Object;)V"
sig_TlbFillHook == "(Lunicorn/Unicorn;JILjava/lang/Object;)J"
sig_MmioReadHandler == "(Lunicorn/Unicorn;JILjava/lang/Object;)J"
sig_MmioWriteHandler == "(Lunicorn/Unicorn;JIJLjava/lang/Object;)V"

\* the host callback objects the caller can pass: one per callback
\* interface, each implementing exactly that interface's method
Callbacks ==
    { "InterruptHook", "InHook", "OutHook", "SyscallHook", "CpuidHook",
      "Arm64SysHook", "CodeHook", "BlockHook", "EventMemHook", "MemHook",
      "InvalidInstructionHook", "EdgeGeneratedHook", "TcgOpcodeHook",
      "TlbFillHook", "MmioReadHandler", "MmioWriteHandler" }

\* the one method <<name, signature>> the class of a callback object has
MethodOf(cb) ==
    CASE cb = "InterruptHook" -> <<"hook", sig_InterruptHook>>
      [] cb = "InHook" -> <<"hook", sig_InHook>>
      [] cb = "OutHook" -> <<"hook", sig_OutHook>>
      [] cb = "SyscallHook" -> <<"hook", sig_SyscallHook>>
      [] cb = "CpuidHook" -> <<"hook", sig_CpuidHook>>
      [] cb = "Arm64SysHook" -> <<"hook", sig_Arm64SysHook>>
      [] cb = "CodeHook" -> <<"hook", sig_CodeHook>>
      [] cb = "BlockHook" -> <<"hook", sig_CodeHook>>
      [] cb = "EventMemHook" -> <<"hook", sig_EventMemHook>>
      [] cb = "MemHook" -> <<"hook", sig_MemHook>>
      [] cb = "InvalidInstructionHook" -> <<"hook", sig_InvalidInstructionHook>>
      [] cb = "EdgeGeneratedHook" -> <<"hook", sig_EdgeGeneratedHook>>
      [] cb = "TcgOpcodeHook" -> <<"hook", sig_TcgOpcodeHook>>
      [] cb = "TlbFillHook" -> <<"hook", sig_TlbFillHook>>
      [] cb = "MmioReadHandler" -> <<"read", sig_MmioReadHandler>>
      [] cb = "MmioWriteHandler" -> <<"write", sig_MmioWriteHandler>>

\* ---------------------------------------------------------------- failures
NoExc == [cls |-> "none", msg |-> ""]

\* the engine's canonical message of a status code
uc_strerror(err) ==
    CASE err = "UC_ERR_OK" -> "OK (UC_ERR_OK)"
      [] err = "UC_ERR_NOMEM" -> "No memory available or memory not present (UC_ERR_NOMEM)"
      [] err = "UC_ERR_HANDLE" -> "Invalid handle (UC_ERR_HANDLE)"
      [] err = "UC_ERR_HOOK" -> "Invalid hook type (UC_ERR_HOOK)"
      [] err = "UC_ERR_INSN_INVALID" -> "Invalid instruction (UC_ERR_INSN_INVALID)"
      [] err = "UC_ERR_MAP" -> "Invalid memory mapping (UC_ERR_MAP)"
      [] err = "UC_ERR_ARG" -> "Invalid argument provided to uc_xxx function (UC_ERR_ARG)"
      [] err = "UC_ERR_EXCEPTION" -> "Unhandled CPU exception (UC_ERR_EXCEPTION)"

\* ThrowNew on a thread whose pending failure is pending. JNI allows ThrowNew
\* and FindClass only with no failure pending; with one pending the call is
\* undefined and the build either keeps the pending failure or replaces it.
ThrowNew(pending, e) ==
    IF pending = NoExc THEN {e} ELSE {pending, e}

throwUnicornException(pending, err) ==
    ThrowNew(pending, [cls |-> "unicorn/UnicornException", msg |-> uc_strerror(err)])

throwCustomUnicornException(pending, msg) ==
    ThrowNew(pending, [cls |-> "unicorn/UnicornException", msg |-> msg])

throwOutOfMemoryError(pending, message) ==
    ThrowNew(pending, [cls |-> "java/lang/OutOfMemoryError", msg |-> message])

\* ------------------------------------------------------------------- state
VARIABLES
    shape,      \* what this caller registers: a valid hook_add shape, or MMIO regions
    recs,       \* the heap: struct hook_wrapper by address, with its storage state
    acct,       \* per record: NewGlobalRef / DeleteGlobalRef / free calls made on it
    hooks,      \* the engine's registrations made by uc_hook_add
    mmio,       \* the engine's MMIO mappings made by uc_mmio_map, by region
    emu,        \* "idle", or "running" inside uc_emu_start
    stop_req,   \* uc_emu_stop was requested during the current run
    pending,    \* the failure pending on the thread inside the current run
    crashed,    \* the process died on a null or dangling dereference
    statics,    \* the function-static class and constructor caches
    engine,     \* the engine's live registers, saved-context registers, mapped buffers
    first_use,  \* threads inside one lazily cached constructor, and its two statics
    last        \* the last boundary call or dispatch: its inputs' kind and its results

vars == <<shape, recs, acct, hooks, mmio, emu, stop_req, pending, crashed,
          statics, engine, first_use, last>>

\* a hook_wrapper as calloc returns it: all fields zero
ZeroRec ==
    [st |-> "live", uc_hh |-> NULL, unicorn |-> NoObj, hook_obj |-> NoObj,
     hook_meth |-> NoObj, user_data |-> NoObj]

NoRec == [ZeroRec EXCEPT !.st = "unalloc"]

ZeroAcct ==
    [by |-> "none", out |-> FALSE, nu |-> 0, nh |-> 0, nd |-> 0, du |-> 0, dh |-> 0,
     dd |-> 0, fr |-> 0, dels |-> 0]

\* calloc hands out the lowest address not in use
HasFresh(rs) == \E r \in RecIds : rs[r].st = "unalloc"

FreshRec(rs) ==
    CHOOSE r \in RecIds :
        /\ rs[r].st = "unalloc"
        /\ \A q \in RecIds : q < r => rs[q].st # "unalloc"

\* NewGlobalRef: null for a null object or when the runtime is out of memory
NewGlobalRef(obj, fails) == IF obj = NoObj \/ fails THEN NoObj ELSE obj

\* GetMethodID: the method id, or null (NoSuchMethodError pending)
GetMethodID(callback, name, sig) ==
    IF MethodOf(callback) = <<name, sig>> THEN sig ELSE NoObj

One(b) == IF b THEN 1 ELSE 0

\* a deleteHookWrapper that frees the storage and releases nothing
deleteHookWrapper_free_only(m, hh) ==
    IF hh = NULL THEN m
    ELSE [recs |-> [m.recs EXCEPT ![hh].st = "freed"],
          acct |-> [m.acct EXCEPT ![hh].fr = @ + 1]]

\* deleteHookWrapper(env, hh) on the heap m = [recs, acct]
deleteHookWrapper(m, hh) ==
    IF hh = NULL THEN m
    ELSE LET r == m.recs[hh] IN
         [recs |-> [m.recs EXCEPT ![hh].st = "freed"],
          acct |-> [m.acct EXCEPT ![hh].du = @ + One(r.unicorn # NoObj),
                                  ![hh].dh = @ + One(r.hook_obj # NoObj),
                                  ![hh].dd = @ + One(r.user_data # NoObj),
                                  ![hh].fr = @ + 1]]


\* every reference the record acquired was released exactly once and its
\* storage was freed exactly once
Balanced(a) ==
    a.fr = 1 /\ a.nu = a.du /\ a.nh = a.dh /\ a.nd = a.dd

\* Storage that was freed, with nothing left to release and nothing pointing
\* at it, is storage calloc can hand out again.
Recycle(m, a, pointed) ==
    IF a # NULL /\ m.recs[a].st = "freed" /\ Balanced(m.acct[a]) /\ a \notin pointed
    THEN [recs |-> [m.recs EXCEPT ![a] = NoRec], acct |-> [m.acct EXCEPT ![a] = ZeroAcct]]
    ELSE m

\* the result of makeHookWrapper: the record (or NULL), the failure it left
\* pending, and the heap
MkResult(hh, exc, m) == [hh |-> hh, exc |-> exc, recs |-> m.recs, acct |-> m.acct]

\* a makeHookWrapper that returns null without deleteHookWrapper
makeHookWrapper_keeps(m, self, callback, user_data, hook_name, hook_sig, fault, by) ==
    IF fault = "calloc"
    THEN MkResult(NULL,
                  CHOOSE e \in throwOutOfMemoryError(NoExc, "Unable to allocate hook_wrapper") : TRUE,
                  m)
    ELSE
    LET hh == FreshRec(m.recs)
        g1 == NewGlobalRef(self, fault = "ref_unicorn")
        g2 == IF g1 = NoObj THEN NoObj ELSE NewGlobalRef(callback, fault = "ref_hook")
        clazz == g2 # NoObj /\ fault # "class"
        meth == IF clazz THEN GetMethodID(callback, hook_name, hook_sig) ELSE NoObj
        g3 == IF meth = NoObj THEN NoObj ELSE NewGlobalRef(user_data, fault = "ref_user")
        ok == meth # NoObj /\ (user_data = NoObj \/ g3 # NoObj)
        exc == IF clazz /\ meth = NoObj
               THEN [cls |-> "java/lang/NoSuchMethodError", msg |-> hook_name]
               ELSE NoExc
        stored == [recs |-> [m.recs EXCEPT ![hh] =
                               [ZeroRec EXCEPT !.unicorn = g1, !.hook_obj = g2,
                                               !.hook_meth = meth, !.user_data = g3]],
                   acct |-> [m.acct EXCEPT ![hh] =
                               [ZeroAcct EXCEPT !.by = by, !.nu = One(g1 # NoObj),
                                                !.nh = One(g2 # NoObj),
                                                !.nd = One(g3 # NoObj)]]]
    IN  IF ok THEN MkResult(hh, NoExc, stored)
        ELSE MkResult(NULL, exc, stored)

\* makeHookWrapper; fault names the step the runtime fails at, "none" for
\* none. Each field is what the code has stored in it when it returns or
\* bails out: a step that is not reached leaves the zero calloc put there.
makeHookWrapper(m, self, callback, user_data, hook_name, hook_sig, fault, by) ==
    IF fault = "calloc"
    THEN MkResult(NULL,
                  CHOOSE e \in throwOutOfMemoryError(NoExc, "Unable to allocate hook_wrapper") : TRUE,
                  m)
    ELSE
    LET hh == FreshRec(m.recs)
        g1 == NewGlobalRef(self, fault = "ref_unicorn")
        g2 == IF g1 = NoObj THEN NoObj ELSE NewGlobalRef(callback, fault = "ref_hook")
        clazz == g2 # NoObj /\ fault # "class"
        meth == IF clazz THEN GetMethodID(callback, hook_name, hook_sig) ELSE NoObj
        g3 == IF meth = NoObj THEN NoObj ELSE NewGlobalRef(user_data, fault = "ref_user")
        ok == meth # NoObj /\ (user_data = NoObj \/ g3 # NoObj)
        exc == IF clazz /\ meth = NoObj
               THEN [cls |-> "java/lang/NoSuchMethodError", msg |-> hook_name]
               ELSE NoExc
        stored == [recs |-> [m.recs EXCEPT ![hh] =
                               [ZeroRec EXCEPT !.unicorn = g1, !.hook_obj = g2,
                                               !.hook_meth = meth, !.user_data = g3]],
                   acct |-> [m.acct EXCEPT ![hh] =
                               [ZeroAcct EXCEPT !.by = by, !.nu = One(g1 # NoObj),
                                                !.nh = One(g2 # NoObj),
                                                !.nd = One(g3 # NoObj)]]]
    IN  IF ok THEN MkResult(hh, NoExc, stored)
        ELSE MkResult(NULL, exc, deleteHookWrapper(stored, hh))

\* steps of makeHookWrapper the runtime can fail at
Faults == { "none", "calloc", "ref_unicorn", "ref_hook", "class", "ref_user" }

\* ------------------------------------------------------- trampoline choice
Chosen(cb, sig) == [cb |-> cb, sig |-> sig, err |-> "UC_ERR_OK"]
Rejected(err) == [cb |-> "none", sig |-> NoObj, err |-> err]

\* a range-only selection that tests the memory masks for any bit inside them
\* and not for bits outside them
hook_add_select1_any_bit(type) ==
    IF type = UC_HOOK_INTR THEN Chosen("cb_hookintr", sig_InterruptHook)
    ELSE IF type = UC_HOOK_CODE \/ type = UC_HOOK_BLOCK
         THEN Chosen("cb_hookcode", sig_CodeHook)
    ELSE IF BitAnd(type, UC_HOOK_MEM_INVALID) # 0
         THEN Chosen("cb_eventmem", sig_EventMemHook)
    ELSE IF BitAnd(type, UC_HOOK_MEM_VALID) # 0
         THEN Chosen("cb_hookmem", sig_MemHook)
    ELSE IF type = UC_HOOK_INSN_INVALID
         THEN Chosen("cb_hookinsn_invalid", sig_InvalidInstructionHook)
    ELSE IF type = UC_HOOK_EDGE_GENERATED
         THEN Chosen("cb_edge_gen", sig_EdgeGeneratedHook)
    ELSE IF type = UC_HOOK_TLB_FILL THEN Chosen("cb_tlbevent", sig_TlbFillHook)
    ELSE Rejected("UC_ERR_HOOK")

\* hook_add(uc, type, callback, user_data, begin, end)
hook_add_select1(type) ==
    IF type = UC_HOOK_INTR THEN Chosen("cb_hookintr", sig_InterruptHook)
    ELSE IF type = UC_HOOK_CODE \/ type = UC_HOOK_BLOCK
         THEN Chosen("cb_hookcode", sig_CodeHook)
    ELSE IF BitAnd(type, UC_HOOK_MEM_INVALID) # 0
            /\ BitAndNot(type, UC_HOOK_MEM_INVALID) = 0
         THEN Chosen("cb_eventmem", sig_EventMemHook)
    ELSE IF BitAnd(type, UC_HOOK_MEM_VALID) # 0
            /\ BitAndNot(type, UC_HOOK_MEM_VALID) = 0
         THEN Chosen("cb_hookmem", sig_MemHook)
    ELSE IF type = UC_HOOK_INSN_INVALID
         THEN Chosen("cb_hookinsn_invalid", sig_InvalidInstructionHook)
    ELSE IF type = UC_HOOK_EDGE_GENERATED
         THEN Chosen("cb_edge_gen", sig_EdgeGeneratedHook)
    ELSE IF type = UC_HOOK_TLB_FILL THEN Chosen("cb_tlbevent", sig_TlbFillHook)
    ELSE Rejected("UC_ERR_HOOK")

\* a selection that rejects every unrecognised combination with UC_ERR_HOOK
hook_add_select2_hook_only(type, arg) ==
    IF type = UC_HOOK_INSN
    THEN CASE arg = "UC_X86_INS_IN" -> Chosen("cb_insn_in", sig_InHook)
           [] arg = "UC_X86_INS_OUT" -> Chosen("cb_insn_out", sig_OutHook)
           [] arg \in {"UC_X86_INS_SYSCALL", "UC_X86_INS_SYSENTER"}
                -> Chosen("cb_insn_syscall", sig_SyscallHook)
           [] arg = "UC_X86_INS_CPUID" -> Chosen("cb_insn_cpuid", sig_CpuidHook)
           [] arg \in {"UC_ARM64_INS_MRS", "UC_ARM64_INS_MSR",
                       "UC_ARM64_INS_SYS", "UC_ARM64_INS_SYSL"}
                -> Chosen("cb_insn_sys", sig_Arm64SysHook)
           [] OTHER -> Rejected("UC_ERR_HOOK")
    ELSE Rejected("UC_ERR_HOOK")

\* a selection that resolves the port-in signature for CPUID
hook_add_select2_cpuid_sig(type, arg) ==
    IF type = UC_HOOK_INSN
    THEN CASE arg = "UC_X86_INS_IN" -> Chosen("cb_insn_in", sig_InHook)
           [] arg = "UC_X86_INS_OUT" -> Chosen("cb_insn_out", sig_OutHook)
           [] arg \in {"UC_X86_INS_SYSCALL", "UC_X86_INS_SYSENTER"}
                -> Chosen("cb_insn_syscall", sig_SyscallHook)
           [] arg = "UC_X86_INS_CPUID" -> Chosen("cb_insn_cpuid", sig_InHook)
           [] arg \in {"UC_ARM64_INS_MRS", "UC_ARM64_INS_MSR",
                       "UC_ARM64_INS_SYS", "UC_ARM64_INS_SYSL"}
                -> Chosen("cb_insn_sys", sig_Arm64SysHook)
           [] OTHER -> Rejected("UC_ERR_INSN_INVALID")
    ELSE Rejected("UC_ERR_HOOK")

\* hook_add(uc, type, callback, user_data, begin, end, arg)
hook_add_select2(type, arg) ==
    IF type = UC_HOOK_INSN
    THEN CASE arg = "UC_X86_INS_IN" -> Chosen("cb_insn_in", sig_InHook)
           [] arg = "UC_X86_INS_OUT" -> Chosen("cb_insn_out", sig_OutHook)
           [] arg \in {"UC_X86_INS_SYSCALL", "UC_X86_INS_SYSENTER"}
                -> Chosen("cb_insn_syscall", sig_SyscallHook)
           [] arg = "UC_X86_INS_CPUID" -> Chosen("cb_insn_cpuid", sig_CpuidHook)
           [] arg \in {"UC_ARM64_INS_MRS", "UC_ARM64_INS_MSR",
                       "UC_ARM64_INS_SYS", "UC_ARM64_INS_SYSL"}
                -> Chosen("cb_insn_sys", sig_Arm64SysHook)
           [] OTHER -> Rejected("UC_ERR_INSN_INVALID")
    ELSE Rejected("UC_ERR_HOOK")

\* hook_add(uc, type, callback, user_data, begin, end, arg1, arg2)
hook_add_select3(type) ==
    IF type = UC_HOOK_TCG_OPCODE THEN Chosen("cb_tcg_op_2", sig_TcgOpcodeHook)
    ELSE Rejected("UC_ERR_HOOK")

\* a call of one of the three overloads: the overload, the type, the arg
Shapes ==
    { [ov |-> 1, type |-> t, arg |-> "-"] : t \in HookTypes }
    \cup { [ov |-> 2, type |-> UC_HOOK_INSN, arg |-> a] : a \in InsnIds }
    \cup { [ov |-> 2, type |-> t, arg |-> "UC_X86_INS_IN"] : t \in OtherTypes }
    \cup { [ov |-> 3, type |-> t, arg |-> "-"] : t \in OtherTypes \cup {UC_HOOK_TCG_OPCODE} }

hook_add_select(s) ==
    CASE s.ov = 1 -> hook_add_select1(s.type)
      [] s.ov = 2 -> hook_add_select2(s.type, s.arg)
      [] s.ov = 3 -> hook_add_select3(s.type)

\* the selection of every call, computed once
Selected == [s \in Shapes |-> hook_add_select(s)]

ValidShapes == { s \in Shapes : Selected[s].cb # "none" }

RejectedShapes == Shapes \ ValidShapes

\* the caller that maps MMIO regions instead of adding hooks
MmioShape == [ov |-> 0, type |-> 0, arg |-> "mmio_map"]

\* --------------------------------------------------------------- the engine
\* the handle of a new registration: one that neither a registration nor a
\* record the caller holds carries
FreshHandle(hs, rs) ==
    CHOOSE h \in 1..(MaxRecs + 1) :
        /\ \A g \in hs : g.hh # h
        /\ \A r \in RecIds : rs[r].st = "unalloc" \/ rs[r].uc_hh # h
        /\ \A k \in 1..(h - 1) :
              \/ \E g \in hs : g.hh = k
              \/ \E r \in RecIds : rs[r].st # "unalloc" /\ rs[r].uc_hh = k

\* uc_hook_add on success: a registration under a new handle, dispatching to
\* trampoline cb with user_data rec
uc_hook_add(hs, hh, cb, rec) == hs \cup { [hh |-> hh, cb |-> cb, rec |-> rec] }

\* uc_hook_del(uc, hh): the registration under handle hh is gone; errs are
\* the statuses it can answer with
uc_hook_del(hs, hh) ==
    [hooks |-> { g \in hs : g.hh # hh },
     errs |-> IF \E g \in hs : g.hh = hh THEN {"UC_ERR_OK"}
              ELSE {"UC_ERR_OK", "UC_ERR_HANDLE"}]

NoMapping == [mapped |-> FALSE, rd |-> NULL, wr |-> NULL]

\* uc_mmio_map on success: region maps to the two callbacks' user_data
uc_mmio_map(mm, region, rd, wr) ==
    [mm EXCEPT ![region] = [mapped |-> TRUE, rd |-> rd, wr |-> wr]]

\* the statuses uc_mmio_map can return for a region
MmioStatuses(mm, region) ==
    IF mm[region].mapped THEN {"UC_ERR_MAP"} ELSE {"UC_ERR_OK"} \cup EngineErrs

\* the records the engine would hand to a trampoline
Registered(hs, mm) ==
    { g.rec : g \in hs }
    \cup { mm[x].rd : x \in Regions } \cup { mm[x].wr : x \in Regions }

\* ----------------------------------------------------------------- hook_add
\* no makeHookWrapper of the call returned null
NoBuildFailure == [fault |-> "-", exc |-> NoExc, acct |-> ZeroAcct]

\* the last call as the caller saw it: the overload, type and arg passed, the
\* trampoline selected, whether a record was built, whether the engine was
\* called and its status, the failure raised and the handle returned
HookAddResult(s, sel, built, native, err, exc, ret) ==
    [op |-> "hook_add", call |-> s, sel |-> sel, built |-> built, native |-> native,
     err |-> err, exc |-> exc, ret |-> ret, build |-> NoBuildFailure]

\* a makeHookWrapper that returned null: the step the runtime failed at, the
\* failure makeHookWrapper left pending, and what was done to the storage
\* calloc had handed out (hh, null when calloc failed) by the time the entry
\* point returned
BuildFailure(fault, exc, ac, hh) ==
    [fault |-> fault, exc |-> exc, acct |-> IF hh = NULL THEN ZeroAcct ELSE ac[hh]]

\* the part the three overloads share: build the record, register it, and
\* delete it again when the engine refuses
hook_add_register(s, sel, callback, user_data, fault, eng) ==
    \E alloc \in {IF fault = "calloc" THEN NULL ELSE FreshRec(recs)},
       mk \in {makeHookWrapper([recs |-> recs, acct |-> acct], "self", callback,
                               user_data, "hook", sel.sig, fault, "hook_add")} :
        IF eng = "UC_ERR_OK"
        THEN IF mk.hh = NULL
             THEN \* the engine stores the new handle through &hh->uc_hh, a null pointer
                  \E mr \in {Recycle(mk, alloc, Registered(hooks, mmio))} :
                  /\ crashed' = TRUE
                  /\ recs' = mr.recs
                  /\ acct' = mr.acct
                  /\ last' = [HookAddResult(s, sel.cb, FALSE, TRUE, eng, mk.exc, NULL)
                                 EXCEPT !.build = BuildFailure(fault, mk.exc, mk.acct, alloc)]
                  /\ UNCHANGED hooks
             ELSE \E h \in {FreshHandle(hooks, recs)} :
                  /\ recs' = [mk.recs EXCEPT ![mk.hh].uc_hh = h]
                  /\ acct' = [mk.acct EXCEPT ![mk.hh].out = TRUE]
                  /\ hooks' = uc_hook_add(hooks, h, sel.cb, mk.hh)
                  /\ last' = HookAddResult(s, sel.cb, TRUE, TRUE, eng, NoExc, mk.hh)
                  /\ UNCHANGED crashed
        ELSE \E e \in throwUnicornException(mk.exc, eng),
                m \in {deleteHookWrapper([recs |-> mk.recs, acct |-> mk.acct], mk.hh)} :
             \E mr \in {Recycle(m, alloc, Registered(hooks, mmio))} :
                /\ recs' = mr.recs
                /\ acct' = mr.acct
                /\ last' = [HookAddResult(s, sel.cb, mk.hh # NULL, TRUE, eng, e, NULL)
                               EXCEPT !.build = IF mk.hh # NULL THEN NoBuildFailure
                                                ELSE BuildFailure(fault, mk.exc, m.acct, alloc)]
                /\ UNCHANGED <<hooks, crashed>>

\* Java_unicorn_Unicorn__1hook_1add, any of the three overloads s.ov. The
\* caller makes its registry calls (hook_add, _hook_del, _hookwrapper_free,
\* _mmio_map) between runs of the engine.
Hook_add(s, callback, user_data, fault, eng) ==
    /\ ~crashed
    /\ emu = "idle"
    /\ \E sel \in {Selected[s]} :
       IF sel.cb = "none"
       THEN /\ last' = HookAddResult(s, "none", FALSE, FALSE, "UC_ERR_OK",
                                     CHOOSE e \in throwUnicornException(NoExc, sel.err) : TRUE,
                                     NULL)
            /\ UNCHANGED <<recs, acct, hooks, crashed>>
       ELSE /\ s = shape
            /\ fault = "calloc" \/ HasFresh(recs)
            /\ hook_add_register(s, sel, callback, user_data, fault, eng)
    /\ UNCHANGED <<first_use, engine, shape, mmio, emu, stop_req, pending, statics>>

\* ----------------------------------------------------------------- hook_del
\* a _hook_del that releases what is held and leaves the fields as they are
hook_del_release_keeps(m, hh) ==
    LET r == m.recs[hh] IN
    [recs |-> m.recs,
     acct |-> [m.acct EXCEPT ![hh].du = @ + One(r.unicorn # NoObj),
                             ![hh].dh = @ + One(r.hook_obj # NoObj),
                             ![hh].dd = @ + One(r.user_data # NoObj),
                             ![hh].dels = 1]]

\* a _hook_del that releases the three fields without testing them
hook_del_release_untested(m, hh) ==
    [recs |-> [m.recs EXCEPT ![hh].unicorn = NoObj,
                             ![hh].hook_obj = NoObj,
                             ![hh].user_data = NoObj],
     acct |-> [m.acct EXCEPT ![hh].du = @ + 1, ![hh].dh = @ + 1, ![hh].dd = @ + 1,
                             ![hh].dels = 1]]

\* Java_unicorn_Unicorn__1hook_1del on the heap m: release what is held and
\* null it
hook_del_release(m, hh) ==
    LET r == m.recs[hh] IN
    [recs |-> [m.recs EXCEPT ![hh].unicorn = NoObj,
                             ![hh].hook_obj = NoObj,
                             ![hh].user_data = NoObj],
     acct |-> [m.acct EXCEPT ![hh].du = @ + One(r.unicorn # NoObj),
                             ![hh].dh = @ + One(r.hook_obj # NoObj),
                             ![hh].dd = @ + One(r.user_data # NoObj),
                             ![hh].dels = 1]]

\* hh is a handle the caller holds and has not freed
Hook_del(hh) ==
    /\ ~crashed
    /\ emu = "idle"
    /\ recs[hh].st = "live"
    /\ \E d \in {uc_hook_del(hooks, recs[hh].uc_hh)},
          m \in {hook_del_release([recs |-> recs, acct |-> acct], hh)} :
        \E err \in d.errs :
           /\ hooks' = d.hooks
           /\ recs' = m.recs
           /\ acct' = m.acct
           /\ last' = [op |-> "hook_del", rec |-> hh, err |-> err, exc |-> NoExc,
                       again |-> acct[hh].dels > 0,
                       released |-> (m.acct[hh].du + m.acct[hh].dh + m.acct[hh].dd)
                                    - (acct[hh].du + acct[hh].dh + acct[hh].dd),
                       same |-> m.recs[hh] = recs[hh]]
    /\ UNCHANGED <<first_use, engine, shape, mmio, emu, stop_req, pending, crashed, statics>>

\* --------------------------------------------------------- hookwrapper_free
\* Java_unicorn_Unicorn__1hookwrapper_1free on a handle not freed before
Hookwrapper_free(hh) ==
    /\ ~crashed
    /\ emu = "idle"
    /\ recs[hh].st = "live"
    /\ \E m \in {deleteHookWrapper([recs |-> recs, acct |-> acct], hh)} :
       \E mr \in {Recycle(m, hh, Registered(hooks, mmio))} :
       /\ recs' = mr.recs
       /\ acct' = mr.acct
       /\ last' = [op |-> "hookwrapper_free", rec |-> hh, exc |-> NoExc,
                   sum |-> m.acct[hh],
                   pointed |-> hh \in Registered(hooks, mmio)]
    /\ UNCHANGED <<first_use, engine, shape, hooks, mmio, emu, stop_req, pending, crashed, statics>>

\* ----------------------------------------------------------------- mmio_map
\* the last call as the caller saw it: whether the read and the write record
\* were built, whether the engine was called and its status, the failure
\* raised, and the array returned (empty for null)
MmioResult(built0, built1, native, err, exc, ok, ret) ==
    [op |-> "mmio_map", built0 |-> built0, built1 |-> built1, native |-> native,
     err |-> err, exc |-> exc, ok |-> ok, ret |-> ret, args |-> "-", build |-> NoBuildFailure]

\* the arguments of a mmio_map that succeeded
MmioArgs(region, read_cb, user_data_read, write_cb, user_data_write) ==
    [region |-> region, read_cb |-> read_cb, user_data_read |-> user_data_read,
     write_cb |-> write_cb, user_data_write |-> user_data_write]

\* a fail: label that deletes hooks[0] only
mmio_map_fail_first_only(m, h0, h1) == deleteHookWrapper(m, h0)

\* the fail: label of mmio_map
mmio_map_fail(m, h0, h1) == deleteHookWrapper(deleteHookWrapper(m, h0), h1)

\* an array with the write handle first
mmio_map_handles_write_first(h0, h1) ==
    (IF h1 # NULL THEN <<h1>> ELSE <<>>) \o (IF h0 # NULL THEN <<h0>> ELSE <<>>)

\* the jlong array of the handles of the records that exist, read first
mmio_map_handles(h0, h1) ==
    (IF h0 # NULL THEN <<h0>> ELSE <<>>) \o (IF h1 # NULL THEN <<h1>> ELSE <<>>)

\* the records of a successful mmio_map are the caller's
HandOut(ac, h) == IF h = NULL THEN ac ELSE [ac EXCEPT ![h].out = TRUE]

\* Java_unicorn_Unicorn__1mmio_1map; f0 and f1 are the steps the runtime
\* fails at while building the read and the write record, arr_fails says
\* NewLongArray fails, eng is the status of uc_mmio_map
Mmio_map(region, read_cb, user_data_read, write_cb, user_data_write, f0, f1, arr_fails, eng) ==
    /\ ~crashed
    /\ emu = "idle"
    /\ shape = MmioShape
    /\ read_cb = NoObj \/ f0 = "calloc" \/ HasFresh(recs)
    /\ \E m0 \in {[recs |-> recs, acct |-> acct]},
          pointed \in {Registered(hooks, mmio)},
          a0 \in {IF read_cb = NoObj \/ f0 = "calloc" THEN NULL ELSE FreshRec(recs)} :
       \E mk0 \in {IF read_cb # NoObj
                   THEN makeHookWrapper(m0, "self", read_cb, user_data_read, "read",
                                        sig_MmioReadHandler, f0, "mmio_map")
                   ELSE MkResult(NULL, NoExc, m0)} :
       IF read_cb # NoObj /\ mk0.hh = NULL
       THEN \E m \in {mmio_map_fail([recs |-> mk0.recs, acct |-> mk0.acct], mk0.hh, NULL)} :
            \E mr \in {Recycle(m, a0, pointed)} :
            /\ recs' = mr.recs
            /\ acct' = mr.acct
            /\ last' = [MmioResult(FALSE, FALSE, FALSE, "UC_ERR_OK", mk0.exc, FALSE, <<>>)
                           EXCEPT !.build = BuildFailure(f0, mk0.exc, m.acct, a0)]
            /\ UNCHANGED mmio
       ELSE
       /\ write_cb = NoObj \/ f1 = "calloc" \/ HasFresh(mk0.recs)
       /\ \E m1 \in {[recs |-> mk0.recs, acct |-> mk0.acct]},
             a1 \in {IF write_cb = NoObj \/ f1 = "calloc" THEN NULL ELSE FreshRec(mk0.recs)} :
          \E mk1 \in {IF write_cb # NoObj
                      THEN makeHookWrapper(m1, "self", write_cb, user_data_write, "write",
                                           sig_MmioWriteHandler, f1, "mmio_map")
                      ELSE MkResult(NULL, NoExc, m1)} :
          \E mf \in {mmio_map_fail([recs |-> mk1.recs, acct |-> mk1.acct], mk0.hh, mk1.hh)} :
          \E mr \in {Recycle(Recycle(mf, a0, pointed), a1, pointed)} :
          IF write_cb # NoObj /\ mk1.hh = NULL
          THEN /\ recs' = mr.recs
               /\ acct' = mr.acct
               /\ last' = [MmioResult(mk0.hh # NULL, FALSE, FALSE, "UC_ERR_OK", mk1.exc,
                                      FALSE, <<>>)
                               EXCEPT !.build = BuildFailure(f1, mk1.exc, mf.acct, a1)]
               /\ UNCHANGED mmio
          ELSE IF arr_fails
          THEN /\ recs' = mr.recs
               /\ acct' = mr.acct
               /\ last' = MmioResult(mk0.hh # NULL, mk1.hh # NULL, FALSE, "UC_ERR_OK",
                                     [cls |-> "java/lang/OutOfMemoryError", msg |-> ""],
                                     FALSE, <<>>)
               /\ UNCHANGED mmio
          ELSE IF eng # "UC_ERR_OK"
          THEN /\ recs' = mr.recs
               /\ acct' = mr.acct
               /\ last' = MmioResult(mk0.hh # NULL, mk1.hh # NULL, TRUE, eng,
                                     CHOOSE e \in throwUnicornException(NoExc, eng) : TRUE,
                                     FALSE, <<>>)
               /\ UNCHANGED mmio
          ELSE /\ recs' = mk1.recs
               /\ acct' = HandOut(HandOut(mk1.acct, mk0.hh), mk1.hh)
               /\ mmio' = uc_mmio_map(mmio, region, mk0.hh, mk1.hh)
               /\ last' = [MmioResult(mk0.hh # NULL, mk1.hh # NULL, TRUE, eng, NoExc,
                                      TRUE, mmio_map_handles(mk0.hh, mk1.hh))
                               EXCEPT !.args = MmioArgs(region, read_cb, user_data_read,
                                                        write_cb, user_data_write)]
    /\ UNCHANGED <<first_use, engine, shape, hooks, emu, stop_req, pending, crashed, statics>>

\* -------------------------------------------------------------- native words
\* a jlong / uint64_t as four 16-bit limbs, most significant first; a
\* uint32_t as two; a jint / int as an integer in -2^31 .. 2^31 - 1
LimbBase == 65536

MinusOne64 == <<LimbBase - 1, LimbBase - 1, LimbBase - 1, LimbBase - 1>>
Zero64 == <<0, 0, 0, 0>>
Zero32 == <<0, 0>>

\* (uint32_t)x of a jint x
ToUint32(x) == <<(x \div LimbBase) % LimbBase, x % LimbBase>>

\* a paddr that keeps the permission bits
MaskOff64_unmasked(w, mask) == w

\* result & ~UC_PROT_ALL and result & UC_PROT_ALL of a jlong
MaskOff64(w, mask) == [w EXCEPT ![4] = BitAndNot(@, mask)]
MaskLow64(w, mask) == BitAnd(w[4], mask)

\* what a host callback can hand back
JInts == { -1, 0, 7 }
JBooleans == { 0, 1 }
JLongs == { MinusOne64, Zero64, <<0, 0, 0, 4101>>, <<LimbBase - 1, LimbBase - 1, LimbBase - 1, LimbBase - 2>>,
            <<0, 1, 0, 8192>> }

\* ------------------------------------------------------- descriptor makers
HostExc == [cls |-> "host", msg |-> "thrown by the callback"]

NoCache == [clazz |-> FALSE, init |-> FALSE]

DescFaults == { "none", "FindClass", "NewGlobalRef", "GetMethodID", "NewObject" }

\* makeArm64_CP / makeTranslationBlock: null for a null native pointer; the
\* class and the constructor are looked up once and cached in statics
makeDescriptor(cache, pend, present, fault, class) ==
    IF ~present THEN [obj |-> NoObj, pend |-> pend, cache |-> cache]
    ELSE IF ~cache.clazz /\ fault = "FindClass"
         THEN [obj |-> NoObj,
               pend |-> [cls |-> "java/lang/NoClassDefFoundError", msg |-> class],
               cache |-> cache]
    ELSE IF ~cache.clazz /\ fault = "NewGlobalRef"
         THEN [obj |-> NoObj, pend |-> pend, cache |-> cache]
    ELSE IF ~cache.init /\ fault = "GetMethodID"
         THEN [obj |-> NoObj,
               pend |-> [cls |-> "java/lang/NoSuchMethodError", msg |-> "<init>"],
               cache |-> [cache EXCEPT !.clazz = TRUE]]
    ELSE IF fault = "NewObject"
         THEN [obj |-> NoObj,
               pend |-> [cls |-> "java/lang/OutOfMemoryError", msg |-> ""],
               cache |-> [clazz |-> TRUE, init |-> TRUE]]
    ELSE [obj |-> class, pend |-> pend, cache |-> [clazz |-> TRUE, init |-> TRUE]]

makeArm64_CP(cache, pend, present, fault) ==
    makeDescriptor(cache, pend, present, fault, "unicorn/Arm64_CP")

makeTranslationBlock(cache, pend, present, fault) ==
    makeDescriptor(cache, pend, present, fault, "unicorn/TranslationBlock")

\* ------------------------------------------------------------- trampolines
\* hookErrorCheck without its uc_emu_stop
hookErrorCheck_no_stop(pend) == [hit |-> pend # NoExc, stop |-> FALSE]

\* a hookErrorCheck that calls uc_emu_stop whether or not a failure is pending
hookErrorCheck_always_stops(pend) == [hit |-> pend # NoExc, stop |-> TRUE]

\* hookErrorCheck: hit is its result, stop says it called uc_emu_stop
hookErrorCheck(pend) == [hit |-> pend # NoExc, stop |-> pend # NoExc]

\* Call<Type>Method on the record's hook_obj: the failure pending afterwards
\* and the value handed back (any value when the callback threw)
CallMethod(pend, hb) ==
    [pend |-> IF hb.throws THEN HostExc ELSE pend, result |-> hb.ret]

EntryInit == [paddr |-> Zero64, perms |-> 0, written |-> FALSE]

\* what a trampoline did: invoked the callback or not, the failure it leaves
\* pending, whether it requested the stop, the value it returns to the
\* engine, the TLB entry, the statics
TrampOut(invoked, pend, stop, ret, entry, st) ==
    [invoked |-> invoked, pend |-> pend, stop |-> stop, ret |-> ret,
     entry |-> entry, statics |-> st]

VoidTrampoline(st, pend, hb) ==
    LET c == CallMethod(pend, hb)
        e == hookErrorCheck(c.pend)
    IN  TrampOut(TRUE, c.pend, e.stop, "void", EntryInit, st)

cb_hookintr(st, pend, hb) == VoidTrampoline(st, pend, hb)
cb_insn_out(st, pend, hb) == VoidTrampoline(st, pend, hb)
cb_insn_syscall(st, pend, hb) == VoidTrampoline(st, pend, hb)
cb_hookcode(st, pend, hb) == VoidTrampoline(st, pend, hb)
cb_hookmem(st, pend, hb) == VoidTrampoline(st, pend, hb)
cb_tcg_op_2(st, pend, hb) == VoidTrampoline(st, pend, hb)
cb_mmio_write(st, pend, hb) == VoidTrampoline(st, pend, hb)

cb_insn_in(st, pend, hb) ==
    LET c == CallMethod(pend, hb)
        e == hookErrorCheck(c.pend)
    IN  TrampOut(TRUE, c.pend, e.stop,
                 IF e.hit THEN Zero32 ELSE ToUint32(c.result), EntryInit, st)

cb_insn_cpuid(st, pend, hb) ==
    LET c == CallMethod(pend, hb)
        e == hookErrorCheck(c.pend)
    IN  TrampOut(TRUE, c.pend, e.stop, IF e.hit THEN 0 ELSE c.result, EntryInit, st)

cb_insn_sys(st, pend, hb, d) ==
    LET j == makeArm64_CP(st.cp, pend, d.cur, d.fault)
        st1 == [st EXCEPT !.cp = j.cache]
        e0 == hookErrorCheck(j.pend)
        c == CallMethod(j.pend, hb)
        e == hookErrorCheck(c.pend)
    IN  IF j.obj = NoObj
        THEN TrampOut(FALSE, j.pend, e0.stop, Zero32, EntryInit, st1)
        ELSE TrampOut(TRUE, c.pend, e.stop,
                      IF e.hit THEN Zero32 ELSE ToUint32(c.result), EntryInit, st1)

cb_eventmem(st, pend, hb) ==
    LET c == CallMethod(pend, hb)
        e == hookErrorCheck(c.pend)
    IN  TrampOut(TRUE, c.pend, e.stop, IF e.hit THEN FALSE ELSE c.result # 0,
                 EntryInit, st)

cb_hookinsn_invalid(st, pend, hb) ==
    LET c == CallMethod(pend, hb)
        e == hookErrorCheck(c.pend)
    IN  TrampOut(TRUE, c.pend, e.stop, IF e.hit THEN FALSE ELSE c.result # 0,
                 EntryInit, st)

\* a cb_edge_gen that tests the first descriptor only
cb_edge_gen_prev_untested(st, pend, hb, d) ==
    LET j1 == makeTranslationBlock(st.tb, pend, d.cur, d.fault)
        e1 == hookErrorCheck(j1.pend)
        j2 == makeTranslationBlock(j1.cache, j1.pend, d.prev, d.fault2)
        c == CallMethod(j2.pend, hb)
        e == hookErrorCheck(c.pend)
    IN  IF j1.obj = NoObj
        THEN TrampOut(FALSE, j1.pend, e1.stop, "void", EntryInit,
                      [st EXCEPT !.tb = j1.cache])
        ELSE TrampOut(TRUE, c.pend, e.stop, "void", EntryInit,
                      [st EXCEPT !.tb = j2.cache])

cb_edge_gen(st, pend, hb, d) ==
    LET j1 == makeTranslationBlock(st.tb, pend, d.cur, d.fault)
        e1 == hookErrorCheck(j1.pend)
        j2 == makeTranslationBlock(j1.cache, j1.pend, d.prev, d.fault2)
        e2 == hookErrorCheck(j2.pend)
        c == CallMethod(j2.pend, hb)
        e == hookErrorCheck(c.pend)
    IN  IF j1.obj = NoObj
        THEN TrampOut(FALSE, j1.pend, e1.stop, "void", EntryInit,
                      [st EXCEPT !.tb = j1.cache])
        ELSE IF j2.obj = NoObj
        THEN TrampOut(FALSE, j2.pend, e2.stop, "void", EntryInit,
                      [st EXCEPT !.tb = j2.cache])
        ELSE TrampOut(TRUE, c.pend, e.stop, "void", EntryInit,
                      [st EXCEPT !.tb = j2.cache])

\* a cb_tlbevent that ignores what hookErrorCheck returns
cb_tlbevent_unchecked(st, pend, hb) ==
    LET c == CallMethod(pend, hb)
        e == hookErrorCheck(c.pend)
    IN  IF c.result = MinusOne64
        THEN TrampOut(TRUE, c.pend, e.stop, FALSE, EntryInit, st)
        ELSE TrampOut(TRUE, c.pend, e.stop, TRUE,
                      [paddr |-> MaskOff64(c.result, UC_PROT_ALL),
                       perms |-> MaskLow64(c.result, UC_PROT_ALL),
                       written |-> TRUE], st)

cb_tlbevent(st, pend, hb) ==
    LET c == CallMethod(pend, hb)
        e == hookErrorCheck(c.pend)
    IN  IF e.hit THEN TrampOut(TRUE, c.pend, e.stop, FALSE, EntryInit, st)
        ELSE IF c.result = MinusOne64
        THEN TrampOut(TRUE, c.pend, e.stop, FALSE, EntryInit, st)
        ELSE TrampOut(TRUE, c.pend, e.stop, TRUE,
                      [paddr |-> MaskOff64(c.result, UC_PROT_ALL),
                       perms |-> MaskLow64(c.result, UC_PROT_ALL),
                       written |-> TRUE], st)

cb_mmio_read(st, pend, hb) ==
    LET c == CallMethod(pend, hb)
        e == hookErrorCheck(c.pend)
    IN  TrampOut(TRUE, c.pend, e.stop, IF e.hit THEN Zero64 ELSE c.result,
                 EntryInit, st)

Trampolines ==
    { "cb_hookintr", "cb_insn_in", "cb_insn_out", "cb_insn_syscall", "cb_insn_cpuid",
      "cb_insn_sys", "cb_hookcode", "cb_eventmem", "cb_hookmem",
      "cb_hookinsn_invalid", "cb_edge_gen", "cb_tcg_op_2", "cb_tlbevent",
      "cb_mmio_read", "cb_mmio_write" }

\* the engine calling the function pointer it was given
Trampoline(cb, st, pend, hb, d) ==
    CASE cb = "cb_hookintr" -> cb_hookintr(st, pend, hb)
      [] cb = "cb_insn_in" -> cb_insn_in(st, pend, hb)
      [] cb = "cb_insn_out" -> cb_insn_out(st, pend, hb)
      [] cb = "cb_insn_syscall" -> cb_insn_syscall(st, pend, hb)
      [] cb = "cb_insn_cpuid" -> cb_insn_cpuid(st, pend, hb)
      [] cb = "cb_insn_sys" -> cb_insn_sys(st, pend, hb, d)
      [] cb = "cb_hookcode" -> cb_hookcode(st, pend, hb)
      [] cb = "cb_eventmem" -> cb_eventmem(st, pend, hb)
      [] cb = "cb_hookmem" -> cb_hookmem(st, pend, hb)
      [] cb = "cb_hookinsn_invalid" -> cb_hookinsn_invalid(st, pend, hb)
      [] cb = "cb_edge_gen" -> cb_edge_gen(st, pend, hb, d)
      [] cb = "cb_tcg_op_2" -> cb_tcg_op_2(st, pend, hb)
      [] cb = "cb_tlbevent" -> cb_tlbevent(st, pend, hb)
      [] cb = "cb_mmio_read" -> cb_mmio_read(st, pend, hb)
      [] cb = "cb_mmio_write" -> cb_mmio_write(st, pend, hb)

\* the values the host callback behind a trampoline can hand back
ReturnsOf(cb) ==
    CASE cb \in {"cb_insn_in", "cb_insn_sys", "cb_insn_cpuid"} -> JInts
      [] cb \in {"cb_eventmem", "cb_hookinsn_invalid"} -> JBooleans
      [] cb \in {"cb_tlbevent", "cb_mmio_read"} -> JLongs
      [] OTHER -> {"void"}

HostBehaviours(cb) == [throws : BOOLEAN, ret : ReturnsOf(cb)]

\* the steps of a descriptor maker that can still fail: a cached class or
\* constructor is not looked up again
DescFaultsLeft(cache) ==
    IF cache.clazz /\ cache.init THEN {"none", "NewObject"}
    ELSE IF cache.clazz THEN {"none", "GetMethodID", "NewObject"}
    ELSE DescFaults

\* the native pointers the engine passes and the step the runtime fails at;
\* prev is read only after cur made a descriptor
DescInputs(cb, st) ==
    CASE cb = "cb_edge_gen" ->
            { d \in [cur : BOOLEAN, prev : BOOLEAN, fault : DescFaultsLeft(st.tb),
                     fault2 : {"none", "NewObject"}] :
                (~d.cur \/ d.fault # "none") => (d.prev /\ d.fault2 = "none") }
      [] cb = "cb_insn_sys" ->
            { d \in [cur : BOOLEAN, prev : {TRUE}, fault : DescFaultsLeft(st.cp),
                     fault2 : {"none"}] :
                ~d.cur => d.fault = "none" }
      [] OTHER -> [cur : {TRUE}, prev : {TRUE}, fault : {"none"}, fault2 : {"none"}]

\* ----------------------------------------------------------------- dispatch
\* what a trampoline finds behind its user_data pointer
RecState(rs, rec) ==
    IF rec = NULL THEN "null"
    ELSE IF rs[rec].st = "freed" THEN "freed"
    ELSE IF rs[rec].unicorn = NoObj \/ rs[rec].hook_obj = NoObj THEN "detached"
    ELSE "registered"

\* host is what the callback did, for a callback that was invoked
NoCall == [throws |-> FALSE, ret |-> "void"]

\* the arguments of a trampoline that never looked at them
NoDesc == [cur |-> TRUE, prev |-> TRUE, fault |-> "none", fault2 |-> "none"]

\* desc is what the engine passed and what the runtime did to the descriptor
\* makers, for a trampoline that ran
DispatchResult(cb, rec, rstate, died, att, hb, d, o) ==
    [op |-> "dispatch", cb |-> cb, rec |-> rec, rstate |-> rstate, died |-> died,
     host |-> IF o.invoked THEN hb ELSE NoCall, invoked |-> o.invoked, stop |-> o.stop, exc |-> o.pend, ret |-> o.ret,
     entry |-> o.entry, desc |-> IF died THEN NoDesc ELSE d, attach |-> att.status]

\* what AttachCurrentThread can answer: JNI_OK on a thread of the runtime
\* (nothing to do) or on a native thread it could attach, an error on a
\* native thread it could not
AttachStatuses == { "JNI_OK", "JNI_ERR" }

\* the first statement of every trampoline, its result unread: env is stored
\* on success only and is an uninitialised local otherwise
AttachCurrentThread(status) ==
    [status |-> status, env |-> IF status = "JNI_OK" THEN "env" ELSE "uninitialised"]

\* the engine calls trampoline cb with user_data rec during a run. With an
\* uninitialised env the first JNI call dies or goes through a stale env of
\* the same stack slot. A record whose references were nulled makes the call
\* dereference null; a freed one is a dangling read, which dies or still
\* finds the stale references.
Fire(cb, rec, status, hb, d) ==
    /\ ~crashed
    /\ emu = "running"
    /\ \E rstate \in {RecState(recs, rec)}, att \in {AttachCurrentThread(status)} :
       \/ /\ rstate # "registered" \/ att.env = "uninitialised"
          /\ crashed' = TRUE
          /\ last' = DispatchResult(cb, rec, rstate, TRUE, att, hb, d,
                                    TrampOut(FALSE, pending, FALSE, "none",
                                             EntryInit, statics))
          /\ UNCHANGED <<pending, stop_req, statics>>
       \/ /\ \/ rstate = "registered"
             \/ rstate = "freed" /\ recs[rec].hook_obj # NoObj
          /\ \E o \in {Trampoline(cb, statics, pending, hb, d)} :
             /\ pending' = o.pend
             /\ stop_req' = (stop_req \/ o.stop)
             /\ statics' = o.statics
             /\ last' = DispatchResult(cb, rec, rstate, FALSE, att, hb, d, o)
             /\ UNCHANGED crashed
    /\ UNCHANGED <<first_use, engine, shape, recs, acct, hooks, mmio, emu>>

\* a hook event of a registration made by uc_hook_add
Dispatch ==
    \E g \in hooks, status \in AttachStatuses :
        \E hb \in HostBehaviours(g.cb), d \in DescInputs(g.cb, statics) :
            Fire(g.cb, g.rec, status, hb, d)

\* a guest read of a mapped MMIO region that has a read callback
Mmio_read ==
    \E x \in Regions :
        /\ mmio[x].mapped
        /\ mmio[x].rd # NULL
        /\ \E status \in AttachStatuses, hb \in HostBehaviours("cb_mmio_read"),
              d \in DescInputs("cb_mmio_read", statics) :
              Fire("cb_mmio_read", mmio[x].rd, status, hb, d)

\* a guest write to a mapped MMIO region that has a write callback
Mmio_write ==
    \E x \in Regions :
        /\ mmio[x].mapped
        /\ mmio[x].wr # NULL
        /\ \E status \in AttachStatuses, hb \in HostBehaviours("cb_mmio_write"),
              d \in DescInputs("cb_mmio_write", statics) :
              Fire("cb_mmio_write", mmio[x].wr, status, hb, d)

\* ---------------------------------------------------------------- emu_start
\* Java_unicorn_Unicorn__1emu_1start enters uc_emu_start
Emu_start ==
    /\ ~crashed
    /\ emu = "idle"
    /\ emu' = "running"
    /\ stop_req' = FALSE
    /\ pending' = NoExc
    /\ last' = [op |-> "emu_enter", exc |-> NoExc]
    /\ UNCHANGED <<first_use, engine, shape, recs, acct, hooks, mmio, crashed, statics>>

\* uc_emu_start returns err and _emu_start returns to its caller
Emu_return(err) ==
    /\ ~crashed
    /\ emu = "running"
    /\ emu' = "idle"
    /\ stop_req' = FALSE
    /\ pending' = NoExc
    /\ \E e \in (IF err # "UC_ERR_OK" THEN throwUnicornException(pending, err)
                 ELSE {pending}) :
          last' = [op |-> "emu_start", err |-> err, host |-> pending, exc |-> e]
    /\ UNCHANGED <<first_use, engine, shape, recs, acct, hooks, mmio, crashed, statics>>

\* ------------------------------------------------- engine control facade
\* register ids: one ordinary register, and the three ids the structured
\* entry points pass themselves
RegIds ==
    { "UC_X86_REG_RAX", "UC_X86_REG_MSR", "UC_ARM_REG_CP_REG", "UC_ARM64_REG_CP_REG" }

\* the registers the engine at hand has: it was opened for x86
EngineRegs == { "UC_X86_REG_RAX", "UC_X86_REG_MSR" }

\* the statuses a register accessor can return
RegStatuses(regid) ==
    IF regid \in EngineRegs THEN {"UC_ERR_OK", "UC_ERR_ARG"} ELSE {"UC_ERR_ARG"}

\* register contents, opaque to this layer
RegVals == { 0, 1 }

\* the isContext selector a caller can pass
IsContexts == { 0, 1, 2 }

\* the register entry points, read and write of each form
RegEntries == { "long", "bytes", "x86_mmr", "x86_msr", "arm_cp", "arm64_cp" }

\* the register id an entry point hands to generic_reg_read / generic_reg_write
EntryRegid(entry, regid) ==
    CASE entry = "x86_msr" -> "UC_X86_REG_MSR"
      [] entry = "arm_cp" -> "UC_ARM_REG_CP_REG"
      [] entry = "arm64_cp" -> "UC_ARM64_REG_CP_REG"
      [] OTHER -> regid

\* the buffer an entry point hands down: a local of the entry point, or the
\* elements of the caller's array
EntryBuffer(entry, val) == [of |-> entry, val |-> val]

\* the engine's live and saved-context register accessors, on success
uc_reg_read(e, regid) == IF regid \in EngineRegs THEN e.regs[regid] ELSE 0
uc_context_reg_read(e, regid) == IF regid \in EngineRegs THEN e.ctx[regid] ELSE 0
uc_reg_write(e, regid, val) ==
    IF regid \in EngineRegs THEN [e EXCEPT !.regs[regid] = val] ELSE e
uc_context_reg_write(e, regid, val) ==
    IF regid \in EngineRegs THEN [e EXCEPT !.ctx[regid] = val] ELSE e

\* a native call as the engine saw it
NativeCall(fn, regid, buf) == [fn |-> fn, regid |-> regid, buf |-> buf]

\* a generic_reg_read that always reads the live engine
generic_reg_read_live_only(e, isContext, regid, result) ==
    [call |-> NativeCall("uc_reg_read", regid, result),
     val |-> uc_reg_read(e, regid)]

\* generic_reg_read: the accessor called and the value it stores on success
generic_reg_read(e, isContext, regid, result) ==
    IF isContext # 0
    THEN [call |-> NativeCall("uc_context_reg_read", regid, result),
          val |-> uc_context_reg_read(e, regid)]
    ELSE [call |-> NativeCall("uc_reg_read", regid, result),
          val |-> uc_reg_read(e, regid)]

\* generic_reg_write: the accessor called and the engine after a success
generic_reg_write(e, isContext, regid, value) ==
    IF isContext # 0
    THEN [call |-> NativeCall("uc_context_reg_write", regid, value),
          engine |-> uc_context_reg_write(e, regid, value.val)]
    ELSE [call |-> NativeCall("uc_reg_write", regid, value),
          engine |-> uc_reg_write(e, regid, value.val)]

\* the _reg_read_* entry points; err is the accessor's status
Reg_read(entry, isContext, regid, err) ==
    /\ \E buf \in {EntryBuffer(entry, 0)} :
       \E g \in {generic_reg_read(engine, isContext, EntryRegid(entry, regid), buf)} :
          last' = [op |-> "reg_read", entry |-> entry, isContext |-> isContext,
                   regid |-> EntryRegid(entry, regid), buf |-> buf,
                   calls |-> <<g.call>>, err |-> err,
                   exc |-> IF err # "UC_ERR_OK"
                           THEN CHOOSE x \in throwUnicornException(NoExc, err) : TRUE
                           ELSE NoExc,
                   ret |-> IF err # "UC_ERR_OK" THEN 0 ELSE g.val]
    /\ UNCHANGED <<first_use, engine, shape, recs, acct, hooks, mmio, emu, stop_req, pending, crashed, statics>>

\* the _reg_write_* entry points
Reg_write(entry, isContext, regid, val, err) ==
    /\ \E buf \in {EntryBuffer(entry, val)} :
       \E g \in {generic_reg_write(engine, isContext, EntryRegid(entry, regid), buf)} :
          /\ engine' = IF err = "UC_ERR_OK" THEN g.engine ELSE engine
          /\ last' = [op |-> "reg_write", entry |-> entry, isContext |-> isContext,
                      regid |-> EntryRegid(entry, regid), buf |-> buf,
                      calls |-> <<g.call>>, err |-> err,
                      exc |-> IF err # "UC_ERR_OK"
                              THEN CHOOSE x \in throwUnicornException(NoExc, err) : TRUE
                              ELSE NoExc,
                      ret |-> 0]
    /\ UNCHANGED <<first_use, shape, recs, acct, hooks, mmio, emu, stop_req, pending, crashed, statics>>

\* what GetDirectBufferCapacity and GetDirectBufferAddress answer
Capacities == { -1, 0, 4096 }
HostAddresses == { NULL, 1 }

\* guest addresses a buffer is mapped at
MapAddresses == { 4096 }

\* a test that looks at the address only
mem_map_ptr_direct_address_only(size, host_address) == host_address # NULL

\* the buffer test of _mem_map_ptr
mem_map_ptr_direct(size, host_address) == ~(size < 0 \/ host_address = NULL)

\* the engine mapping host memory at a guest address
uc_mem_map_ptr(e, address, size, ptr) ==
    [e EXCEPT !.mem = @ \cup {[address |-> address, size |-> size, ptr |-> ptr]}]

\* the statuses uc_mem_map_ptr can return
MemMapStatuses(e, address, size) ==
    IF \E r \in e.mem : r.address = address THEN {"UC_ERR_MAP"}
    ELSE IF size = 0 THEN {"UC_ERR_ARG"}
    ELSE {"UC_ERR_OK", "UC_ERR_NOMEM"}

\* Java_unicorn_Unicorn__1mem_1map_1ptr; size and host_address are what the
\* runtime says about buf, err the status of uc_mem_map_ptr if it is called
Mem_map_ptr(address, size, host_address, err) ==
    /\ IF ~mem_map_ptr_direct(size, host_address)
       THEN /\ last' = [op |-> "mem_map_ptr", size |-> size, host_address |-> host_address,
                        calls |-> <<>>, err |-> "UC_ERR_OK",
                        exc |-> CHOOSE x \in throwCustomUnicornException(NoExc,
                                         "mem_map_ptr requires a direct buffer") : TRUE]
            /\ UNCHANGED engine
       ELSE /\ engine' = IF err = "UC_ERR_OK"
                         THEN uc_mem_map_ptr(engine, address, size, host_address)
                         ELSE engine
            /\ last' = [op |-> "mem_map_ptr", size |-> size, host_address |-> host_address,
                        calls |-> <<"uc_mem_map_ptr">>, err |-> err,
                        exc |-> IF err # "UC_ERR_OK"
                                THEN CHOOSE x \in throwUnicornException(NoExc, err) : TRUE
                                ELSE NoExc]
    /\ UNCHANGED <<first_use, shape, recs, acct, hooks, mmio, emu, stop_req, pending, crashed, statics>>

\* ------------------------------------------------- concurrent first use
\* The lazily cached class and constructor of makeX86_MMR, makeArm64_CP,
\* makeTranslationBlock and _mem_regions, statement by statement, with several
\* threads inside the same function.  The two statics are plain C variables.

MaxThreads == 2
Threads == 1..MaxThreads

CachedFunctions == {"makeX86_MMR", "makeArm64_CP", "makeTranslationBlock", "_mem_regions"}

\* the reference FindClass hands thread t: local to that thread's frame
LocalRef(t) == <<"local", t>>
GlobalRef == <<"global", 0>>
NullRef == <<"NULL", 0>>

\* no thread is inside a cached constructor, both statics are zero
NoFirstUse ==
    [fn |-> "-", clazz |-> NullRef, clazzInit |-> "NULL",
     pc |-> [t \in Threads |-> "out"],
     seen |-> [t \in Threads |-> <<"-", 0>>],
     used |-> [t \in Threads |-> <<"-", 0>>],
     ret |-> [t \in Threads |-> "-"],
     finds |-> 0, globals |-> 0]

At(t, where) == first_use.fn # "-" /\ first_use.pc[t] = where

Goto(t, where) == [first_use.pc EXCEPT ![t] = where]

FirstUseStep(f) ==
    /\ first_use' = f
    /\ UNCHANGED <<shape, recs, acct, hooks, mmio, emu, stop_req, pending, crashed,
                   statics, engine, last>>

\* all threads enter the same function for the first time together
FirstUse(fn) ==
    /\ first_use.fn = "-"
    /\ FirstUseStep([first_use EXCEPT !.fn = fn, !.pc = [t \in Threads |-> "test_clazz"]])

\* if (!clazz)
TestClazz(t) ==
    /\ At(t, "test_clazz")
    /\ FirstUseStep([first_use EXCEPT
           !.seen[t] = first_use.clazz,
           !.pc[t] = IF first_use.clazz = NullRef THEN "FindClass" ELSE "test_clazzInit"])

\* clazz = (*env)->FindClass(env, ...)
FindClass(t, ok) ==
    /\ At(t, "FindClass")
    /\ FirstUseStep([first_use EXCEPT
           !.clazz = IF ok THEN LocalRef(t) ELSE NullRef,
           !.finds = @ + 1,
           !.pc[t] = "found"])

\* if (!clazz) return NULL;
Found(t) ==
    /\ At(t, "found")
    /\ FirstUseStep([first_use EXCEPT
           !.pc[t] = IF first_use.clazz = NullRef THEN "returned" ELSE "NewGlobalRef",
           !.ret[t] = IF first_use.clazz = NullRef THEN "NULL" ELSE @])

\* clazz = (*env)->NewGlobalRef(env, clazz)
NewGlobalRefClazz(t, ok) ==
    /\ At(t, "NewGlobalRef")
    /\ FirstUseStep([first_use EXCEPT
           !.clazz = IF ok /\ first_use.clazz # NullRef THEN GlobalRef ELSE NullRef,
           !.globals = IF ok /\ first_use.clazz # NullRef THEN @ + 1 ELSE @,
           !.pc[t] = "global"])

\* if (!clazz) return NULL;
Global(t) ==
    /\ At(t, "global")
    /\ FirstUseStep([first_use EXCEPT
           !.pc[t] = IF first_use.clazz = NullRef THEN "returned" ELSE "test_clazzInit",
           !.ret[t] = IF first_use.clazz = NullRef THEN "NULL" ELSE @])

\* if (!clazzInit)
TestClazzInit(t) ==
    /\ At(t, "test_clazzInit")
    /\ FirstUseStep([first_use EXCEPT
           !.pc[t] = IF first_use.clazzInit = "NULL" THEN "GetMethodID" ELSE "NewObject"])

\* clazzInit = (*env)->GetMethodID(env, clazz, "<init>", ...)
GetMethodIDClazz(t, ok) ==
    /\ At(t, "GetMethodID")
    /\ FirstUseStep([first_use EXCEPT
           !.clazzInit = IF ok THEN "<init>" ELSE "NULL",
           !.used[t] = first_use.clazz,
           !.pc[t] = "resolved"])

\* if (!clazzInit) return NULL;
Resolved(t) ==
    /\ At(t, "resolved")
    /\ FirstUseStep([first_use EXCEPT
           !.pc[t] = IF first_use.clazzInit = "NULL" THEN "returned" ELSE "NewObject",
           !.ret[t] = IF first_use.clazzInit = "NULL" THEN "NULL" ELSE @])

\* the first call that builds from the cached class: NewObject in the
\* constructors, NewObjectArray in _mem_regions
NewObject(t) ==
    /\ At(t, "NewObject")
    /\ FirstUseStep([first_use EXCEPT
           !.used[t] = first_use.clazz,
           !.ret[t] = "object",
           !.pc[t] = "returned"])


\* -------------------------------------------------------------------- spec
UserDatas == { NoObj, "user_data" }

Init ==
    /\ shape \in ValidShapes \cup {MmioShape}
    /\ recs = [r \in RecIds |-> NoRec]
    /\ acct = [r \in RecIds |-> ZeroAcct]
    /\ hooks = {}
    /\ mmio = [x \in Regions |-> NoMapping]
    /\ emu = "idle"
    /\ stop_req = FALSE
    /\ pending = NoExc
    /\ crashed = FALSE
    /\ statics = [cp |-> NoCache, tb |-> NoCache]
    /\ engine = [regs |-> [r \in EngineRegs |-> 0], ctx |-> [r \in EngineRegs |-> 0],
                 mem |-> {}]
    /\ first_use = NoFirstUse
    /\ last = [op |-> "none", exc |-> NoExc]

\* What a caller passes as callback and user data where method <<name, sig>>
\* is expected, with the step the runtime fails at: a callback that fits,
\* with or without user data and no fault; one fault (user data is passed
\* where its reference is the one that fails); a callback that does not fit;
\* a null callback.
BuildInputs(name, sig) ==
    LET fits == { x \in Callbacks : MethodOf(x) = <<name, sig>> }
        other == CHOOSE x \in {"CodeHook", "InterruptHook"} : x \notin fits
    IN  { [cb |-> c, ud |-> u, f |-> "none"] : c \in fits, u \in UserDatas }
        \cup { [cb |-> c, ud |-> NoObj, f |-> f] :
                 c \in fits, f \in Faults \ {"none", "ref_user"} }
        \cup { [cb |-> c, ud |-> "user_data", f |-> "ref_user"] : c \in fits }
        \cup { [cb |-> c, ud |-> NoObj, f |-> "none"] : c \in {NoObj, other} }

\* makeHookWrapper succeeds on these inputs
Builds(b, name, sig) ==
    /\ b.cb # NoObj
    /\ MethodOf(b.cb) = <<name, sig>>
    /\ b.f = "none"

\* the engine's answers to a call: any status for a record that was built;
\* for a null record, OK or one error status
HookAddCalls ==
    \E s \in RejectedShapes \cup ({shape} \cap ValidShapes) :
        IF s = shape
        THEN \E b \in BuildInputs("hook", Selected[s].sig) :
             \E eng \in (IF Builds(b, "hook", Selected[s].sig)
                         THEN {"UC_ERR_OK"} \cup EngineErrs
                         ELSE {"UC_ERR_OK", "UC_ERR_NOMEM"}) :
                Hook_add(s, b.cb, b.ud, b.f, eng)
        ELSE Hook_add(s, NoObj, NoObj, "none", "UC_ERR_OK")

\* the arguments after the first failing step of mmio_map are never read; a
\* null callback is an absent target
MmioMapCalls ==
    \E region \in Regions :
      \E b0 \in BuildInputs("read", sig_MmioReadHandler) :
          IF b0.cb # NoObj /\ ~Builds(b0, "read", sig_MmioReadHandler)
          THEN Mmio_map(region, b0.cb, b0.ud, NoObj, NoObj, b0.f, "none", FALSE, "UC_ERR_OK")
          ELSE \E b1 \in BuildInputs("write", sig_MmioWriteHandler) :
                   IF b1.cb # NoObj /\ ~Builds(b1, "write", sig_MmioWriteHandler)
                   THEN Mmio_map(region, b0.cb, b0.ud, b1.cb, b1.ud, b0.f, b1.f, FALSE,
                                 "UC_ERR_OK")
                   ELSE \/ Mmio_map(region, b0.cb, b0.ud, b1.cb, b1.ud, b0.f, b1.f, TRUE,
                                    "UC_ERR_OK")
                        \/ \E eng \in MmioStatuses(mmio, region) :
                              Mmio_map(region, b0.cb, b0.ud, b1.cb, b1.ud, b0.f, b1.f,
                                       FALSE, eng)

Next ==
    \/ HookAddCalls
    \/ \E hh \in RecIds : Hook_del(hh)
    \/ \E hh \in RecIds : Hookwrapper_free(hh)
    \/ MmioMapCalls
    \/ Dispatch
    \/ Mmio_read
    \/ Mmio_write
    \/ Emu_start
    \/ \E err \in {"UC_ERR_OK", "UC_ERR_EXCEPTION"} \cup EngineErrs : Emu_return(err)

Spec == Init /\ [][Next]_vars

\* the engine control facade alone: register access and direct-buffer mapping
\* on an engine with no hooks
FacadeInit == Init /\ shape = MmioShape

\* the register id a caller passes: the structured entry points take none
CallerRegids(entry) ==
    IF EntryRegid(entry, "-") = "-" THEN {"UC_X86_REG_RAX"} ELSE {"-"}

RegReadCalls ==
    \E entry \in RegEntries, isContext \in IsContexts :
        \E regid \in CallerRegids(entry) :
            \E err \in RegStatuses(EntryRegid(entry, regid)) :
                Reg_read(entry, isContext, regid, err)

RegWriteCalls ==
    \E entry \in RegEntries, isContext \in IsContexts, val \in RegVals :
        \E regid \in CallerRegids(entry) :
            \E err \in RegStatuses(EntryRegid(entry, regid)) :
                Reg_write(entry, isContext, regid, val, err)

MemMapPtrCalls ==
    \E address \in MapAddresses, size \in Capacities, host_address \in HostAddresses :
        \E err \in MemMapStatuses(engine, address, size) :
            Mem_map_ptr(address, size, host_address, err)

FacadeNext == RegReadCalls \/ RegWriteCalls \/ MemMapPtrCalls

FacadeSpec == FacadeInit /\ [][FacadeNext]_vars

\* threads racing through one lazily cached constructor
FirstUseNext ==
    \/ \E fn \in CachedFunctions : FirstUse(fn)
    \/ \E t \in Threads :
        \/ TestClazz(t)
        \/ \E ok \in BOOLEAN : FindClass(t, ok)
        \/ Found(t)
        \/ \E ok \in BOOLEAN : NewGlobalRefClazz(t, ok)
        \/ Global(t)
        \/ TestClazzInit(t)
        \/ \E ok \in BOOLEAN : GetMethodIDClazz(t, ok)
        \/ Resolved(t)
        \/ NewObject(t)

FirstUseSpec == FacadeInit /\ [][FirstUseNext]_vars

\* ------------------------------------------------------------------ claims
UnicornException(err) == [cls |-> "unicorn/UnicornException", msg |-> uc_strerror(err)]

\* every record in the heap was handed to the caller by a successful call,
\* and a freed one had each reference released once and its storage freed once
NoResidue ==
    \A r \in RecIds :
        recs[r].st # "unalloc" =>
            /\ acct[r].out
            /\ recs[r].st = "freed" => Balanced(acct[r])

\* C1: every dispatch reads a record that is still registered: no trampoline
\* is entered with a record whose references were released (detached) or
\* whose storage was freed.
C1_DispatchOnlyRegistered ==
    last.op = "dispatch" => last.rstate = "registered"

\* C1, the case reached: the MMIO read trampoline entered with a record of
\* mmio_map that _hook_del detached and that was never freed
C1_MmioDispatchDetached ==
    /\ last.op = "dispatch"
    /\ last.cb = "cb_mmio_read"
    /\ last.rstate = "detached"
    /\ recs[last.rec].st = "live"
    /\ acct[last.rec].dels = 1

\* C2: when _hook_del has returned, the engine holds no registration that
\* points at the record, whatever uc_hook_del answered.
C2_NoRegistrationAfterHookDel ==
    last.op = "hook_del" => last.rec \notin Registered(hooks, mmio)

\* C2, the case reached: _hook_del returned on a record of mmio_map and the
\* region's mapping still points at it
C2_MmioStillMapped ==
    /\ last.op = "hook_del"
    /\ acct[last.rec].by = "mmio_map"
    /\ last.err = "UC_ERR_OK"
    /\ \E x \in Regions : mmio[x].mapped /\ last.rec \in {mmio[x].rd, mmio[x].wr}

\* C3: hook_add (success), _hook_del, _hookwrapper_free on a record releases
\* the engine facade, the callback target and the user data (when given)
\* exactly once each, frees the storage exactly once, and leaves no
\* registration pointing at the record.
C3_AddDelFreeReleasesOnce ==
    (last.op = "hookwrapper_free" /\ last.sum.by = "hook_add" /\ last.sum.dels = 1) =>
        /\ last.sum.nu = 1 /\ last.sum.du = 1
        /\ last.sum.nh = 1 /\ last.sum.dh = 1
        /\ last.sum.nd \in {0, 1} /\ last.sum.dd = last.sum.nd
        /\ last.sum.fr = 1
        /\ ~last.pointed
        /\ \A g \in hooks : g.rec # last.rec

\* C3, the case reached: a record of hook_add with user data, deleted and
\* then freed
C3_AddDelFreeDone ==
    /\ last.op = "hookwrapper_free"
    /\ last.sum.by = "hook_add"
    /\ last.sum.dels = 1
    /\ last.sum.nd = 1
    /\ last.sum.fr = 1

\* C4: a second or later _hook_del on a record that was not freed releases
\* no reference and leaves the reference fields, all null, as they were.
C4_HookDelIdempotent ==
    (last.op = "hook_del" /\ last.again) =>
        /\ last.released = 0
        /\ last.same
        /\ recs[last.rec].unicorn = NoObj
        /\ recs[last.rec].hook_obj = NoObj
        /\ recs[last.rec].user_data = NoObj

\* C4, the case reached: _hook_del a second time on a live record
C4_HookDelAgain ==
    /\ last.op = "hook_del"
    /\ last.again
    /\ recs[last.rec].st = "live"
    /\ acct[last.rec].nu = 1

\* what a hook_add that selects no trampoline does, failing with status err
RejectedWith(err) ==
    /\ last'.exc = UnicornException(err)
    /\ ~last'.built
    /\ ~last'.native
    /\ last'.ret = NULL
    /\ UNCHANGED <<recs, acct, hooks, mmio>>

\* C5 as amended: a hook_add whose type and argument select no trampoline
\* fails before any record is allocated and before uc_hook_add is called,
\* leaving the heap and the engine's registrations unchanged; the failure is
\* UC_ERR_INSN_INVALID in the overload with one argument when the type is
\* UC_HOOK_INSN, and UC_ERR_HOOK in every other case.
C5_RejectedBeforeAnyRecord ==
    [][(last'.op = "hook_add" /\ last'.sel = "none") =>
          RejectedWith(IF last'.call.ov = 2 /\ last'.call.type = UC_HOOK_INSN
                       THEN "UC_ERR_INSN_INVALID" ELSE "UC_ERR_HOOK")]_vars

\* C5 as stated: every hook_add whose type and argument select no
\* trampoline fails with UC_ERR_HOOK before any record is allocated and
\* before uc_hook_add is called, leaving the registrations unchanged.
C5_RejectedWithHookError ==
    [][(last'.op = "hook_add" /\ last'.sel = "none") => RejectedWith("UC_ERR_HOOK")]_vars

\* C5, the case reached: a rejected hook_add on an engine that holds a
\* registration of an earlier valid hook_add
C5_RejectedAfterValid ==
    /\ last.op = "hook_add"
    /\ last.sel = "none"
    /\ last.call.ov = 2
    /\ last.exc = UnicornException("UC_ERR_INSN_INVALID")
    /\ hooks # {}

\* C6: when building the record fails inside hook_add, uc_hook_add is not
\* called.
C6_BuildFailureBeforeNativeCall ==
    (last.op = "hook_add" /\ last.sel # "none" /\ ~last.built) => ~last.native

\* C6, the case reached: the record was not built, the engine was called and
\* stored the new handle through the null record
C6_NativeCallOnNullRecord ==
    /\ last.op = "hook_add"
    /\ ~last.built
    /\ last.native
    /\ last.err = "UC_ERR_OK"
    /\ crashed

\* C7: when uc_hook_add answers a non-OK status, the failure raised carries
\* that status, the handle returned is 0, and no record of the call is left:
\* each reference it acquired was released once and its storage freed.
C7_RefusedAddUnwound ==
    (last.op = "hook_add" /\ last.native /\ last.err # "UC_ERR_OK") =>
        /\ last.exc = UnicornException(last.err)
        /\ last.ret = NULL
        /\ NoResidue

\* C7, the case reached: uc_hook_add refused a null record while the build's
\* failure was pending, and that failure is the one raised
C7_RefusedWithBuildFailure ==
    /\ last.op = "hook_add"
    /\ last.native
    /\ ~last.built
    /\ last.err # "UC_ERR_OK"
    /\ last.exc.cls = "java/lang/NoSuchMethodError"

\* C8: a mmio_map that fails returns no handle, leaves no record of the call
\* behind (each reference released once, the storage freed once), and leaves
\* no mapping that points at a record the caller did not get.
C8_MmioMapAllOrNothing ==
    (last.op = "mmio_map" /\ ~last.ok) =>
        /\ last.ret = <<>>
        /\ NoResidue
        /\ \A x \in Regions :
              /\ mmio[x].rd # NULL => acct[mmio[x].rd].out
              /\ mmio[x].wr # NULL => acct[mmio[x].wr].out

\* C8, the case reached: both records were built and uc_mmio_map refused
C8_MmioMapRefused ==
    /\ last.op = "mmio_map"
    /\ ~last.ok
    /\ last.built0
    /\ last.built1
    /\ last.native
    /\ last.err = "UC_ERR_NOMEM"

\* C9: when the host callback returns with a failure pending, the trampoline
\* has requested uc_emu_stop by the time it returns.
C9_StopOnPendingFailure ==
    (last.op = "dispatch" /\ ~last.died /\ last.invoked /\ last.exc # NoExc) =>
        /\ last.stop
        /\ stop_req

\* C9, the case reached: the callback threw and the stop was requested
C9_CallbackThrew ==
    /\ last.op = "dispatch"
    /\ last.invoked
    /\ last.host.throws
    /\ last.stop

\* the trampolines that return a value to the engine
ValueTrampolines ==
    { "cb_insn_in", "cb_insn_cpuid", "cb_insn_sys", "cb_eventmem",
      "cb_hookinsn_invalid", "cb_tlbevent", "cb_mmio_read" }

\* the neutral value of each: 0 or false
Neutral(cb) ==
    CASE cb \in {"cb_insn_in", "cb_insn_sys"} -> Zero32
      [] cb = "cb_insn_cpuid" -> 0
      [] cb \in {"cb_eventmem", "cb_hookinsn_invalid", "cb_tlbevent"} -> FALSE
      [] cb = "cb_mmio_read" -> Zero64

\* C10: a value-returning trampoline whose callback left a failure pending
\* returns the neutral value whatever the callback handed back, and the TLB
\* entry is not written.
C10_NeutralValueOnFailure ==
    (/\ last.op = "dispatch" /\ ~last.died /\ last.invoked /\ last.exc # NoExc
     /\ last.cb \in ValueTrampolines) =>
        /\ last.ret = Neutral(last.cb)
        /\ last.entry = EntryInit

\* C10, the case reached: the TLB-fill callback threw, the value it handed
\* back was a mapping, and the trampoline returned false
C10_TlbFillThrew ==
    /\ last.op = "dispatch"
    /\ last.invoked
    /\ last.cb = "cb_tlbevent"
    /\ last.host.throws
    /\ last.host.ret = <<0, 0, 0, 4101>>
    /\ last.ret = FALSE

\* C11: a failure a host callback raised during a run is the failure
\* _emu_start leaves to its caller, whatever status uc_emu_start returned: no
\* engine-status failure replaces it or is raised on top of it.
C11_HostFailureSurfaces ==
    (last.op = "emu_start" /\ last.host # NoExc) => last.exc = last.host

\* C11, the case reached: the callback's failure was pending when
\* uc_emu_start returned a non-OK status, and the caller got the status's
\* failure instead
C11_HostFailureReplaced ==
    /\ last.op = "emu_start"
    /\ last.host = HostExc
    /\ last.err = "UC_ERR_EXCEPTION"
    /\ last.exc = UnicornException("UC_ERR_EXCEPTION")

\* the entry points of the model that make a status-returning native call, and
\* whether the last call reached it
StatusCall ==
    \/ last.op \in {"hook_del", "emu_start"}
    \/ last.op \in {"hook_add", "mmio_map"} /\ last.native

\* C12: an entry point whose native call returned a non-OK status leaves the
\* UnicornException carrying uc_strerror of exactly that status, and one whose
\* native call returned UC_ERR_OK leaves no UnicornException.
C12_StatusBecomesFailure ==
    StatusCall =>
        IF last.err # "UC_ERR_OK"
        THEN last.exc = UnicornException(last.err)
        ELSE last.exc.cls # "unicorn/UnicornException"

\* C12, the case reached: uc_hook_del returned UC_ERR_HANDLE and _hook_del
\* returned with no failure raised
C12_HookDelStatusDropped ==
    /\ last.op = "hook_del"
    /\ last.err = "UC_ERR_HANDLE"
    /\ last.exc = NoExc

\* the TLB-fill trampoline was entered on a registered record and no failure
\* was pending when it checked
TlbFillClean ==
    /\ last.op = "dispatch"
    /\ last.cb = "cb_tlbevent"
    /\ last.invoked
    /\ last.exc = NoExc

\* C13: with no failure pending, a TLB-fill callback that returned V other than
\* -1 makes the trampoline return true with paddr = V less its three low bits
\* and perms = those three bits of V; V = -1 makes it return false and leaves
\* the entry as it was.
C13_TlbFillSplitsValue ==
    TlbFillClean =>
        IF last.host.ret = MinusOne64
        THEN last.ret = FALSE /\ last.entry = EntryInit
        ELSE /\ last.ret = TRUE
             /\ last.entry.written
             /\ last.entry.perms = last.host.ret[4] % (UC_PROT_ALL + 1)
             /\ last.entry.paddr =
                    [last.host.ret EXCEPT ![4] = @ - (@ % (UC_PROT_ALL + 1))]

\* C13, the case reached: the callback returned 0x1005, which splits into the
\* page 0x1000 and the permissions 5
C13_TlbFillSplit ==
    /\ TlbFillClean
    /\ last.host.ret = <<0, 0, 0, 4101>>
    /\ last.ret = TRUE
    /\ last.entry.paddr = <<0, 0, 0, 4096>>
    /\ last.entry.perms = 5

\* the edge-generation trampoline ran on a registered record
EdgeGenRan == last.op = "dispatch" /\ last.cb = "cb_edge_gen" /\ ~last.died

\* both native translation blocks were there and both descriptors were made
BothDescriptors ==
    /\ last.desc.cur /\ last.desc.fault = "none"
    /\ last.desc.prev /\ last.desc.fault2 = "none"

\* C14: the edge-generation trampoline invokes the host callback exactly when
\* both translation-block descriptors were constructed; with a null native
\* block or a failed construction it returns without invoking the callback and
\* without dying, and has requested the stop exactly when a failure is pending.
C14_EdgeGenNeedsBothDescriptors ==
    EdgeGenRan =>
        /\ last.invoked <=> BothDescriptors
        /\ ~crashed
        /\ last.stop <=> (last.exc # NoExc)

\* C14, the case reached: the second descriptor's NewObject failed, the
\* callback was not invoked and the stop was requested
C14_EdgeGenSecondFailed ==
    /\ EdgeGenRan
    /\ last.desc.cur /\ last.desc.fault = "none"
    /\ last.desc.prev /\ last.desc.fault2 = "NewObject"
    /\ ~last.invoked
    /\ last.stop

\* the trampoline the claim names for an instruction identifier
InsnTrampoline(arg) ==
    CASE arg = "UC_X86_INS_IN" -> "cb_insn_in"
      [] arg = "UC_X86_INS_OUT" -> "cb_insn_out"
      [] arg = "UC_X86_INS_SYSCALL" -> "cb_insn_syscall"
      [] arg = "UC_X86_INS_SYSENTER" -> "cb_insn_syscall"
      [] arg = "UC_X86_INS_CPUID" -> "cb_insn_cpuid"
      [] arg = "UC_ARM64_INS_MRS" -> "cb_insn_sys"
      [] arg = "UC_ARM64_INS_MSR" -> "cb_insn_sys"
      [] arg = "UC_ARM64_INS_SYS" -> "cb_insn_sys"
      [] arg = "UC_ARM64_INS_SYSL" -> "cb_insn_sys"
      [] OTHER -> "none"

\* the signature of the host method each instruction trampoline calls
InsnTrampolineSig(cb) ==
    CASE cb = "cb_insn_in" -> sig_InHook
      [] cb = "cb_insn_out" -> sig_OutHook
      [] cb = "cb_insn_syscall" -> sig_SyscallHook
      [] cb = "cb_insn_cpuid" -> sig_CpuidHook
      [] cb = "cb_insn_sys" -> sig_Arm64SysHook
      [] OTHER -> NoObj

\* a hook_add of type UC_HOOK_INSN with an instruction identifier succeeded
InsnHookAdded ==
    /\ last.op = "hook_add"
    /\ last.call.ov = 2
    /\ last.call.type = UC_HOOK_INSN
    /\ last.ret # NULL

\* C15: a successful hook_add of type UC_HOOK_INSN registers the trampoline
\* that belongs to the instruction identifier (IN, OUT, SYSCALL/SYSENTER,
\* CPUID, MRS/MSR/SYS/SYSL), and the method resolved for the record has the
\* signature of that trampoline.
C15_InsnTrampolineById ==
    InsnHookAdded =>
        /\ InsnTrampoline(last.call.arg) # "none"
        /\ \E g \in hooks :
              g.rec = last.ret /\ g.cb = InsnTrampoline(last.call.arg)
        /\ \A g \in hooks :
              g.rec = last.ret => g.cb = InsnTrampoline(last.call.arg)
        /\ recs[last.ret].hook_meth =
              InsnTrampolineSig(InsnTrampoline(last.call.arg))

\* C15, the case reached: CPUID registered the cpuid trampoline with the
\* method of CpuidHook
C15_CpuidAdded ==
    /\ InsnHookAdded
    /\ last.call.arg = "UC_X86_INS_CPUID"
    /\ \E g \in hooks : g.rec = last.ret /\ g.cb = "cb_insn_cpuid"
    /\ recs[last.ret].hook_meth = sig_CpuidHook

\* the last call was a mmio_map that succeeded
MmioMapped == last.op = "mmio_map" /\ last.ok

\* record h is live and was built from callback cb, its method sig and the
\* user data ud
BuiltFrom(h, cb, sig, ud) ==
    /\ h \in RecIds
    /\ recs[h].st = "live"
    /\ recs[h].hook_obj = cb
    /\ recs[h].hook_meth = sig
    /\ recs[h].user_data = ud

\* C16: a successful mmio_map returns one handle per present target, the read
\* handle before the write handle, each a record of its own built from its own
\* target and user data, and the engine got that record for the target; an
\* absent target has no handle and the engine got null for it.
C16_MmioMapOneRecordPerTarget ==
    MmioMapped =>
        LET a == last.args
            rd == a.read_cb # NoObj
            wr == a.write_cb # NoObj
            n == One(rd) + One(wr)
            m == mmio[a.region]
        IN  /\ Len(last.ret) = n
            /\ m.mapped
            /\ IF rd
               THEN /\ BuiltFrom(last.ret[1], a.read_cb, sig_MmioReadHandler, a.user_data_read)
                    /\ m.rd = last.ret[1]
               ELSE m.rd = NULL
            /\ IF wr
               THEN /\ BuiltFrom(last.ret[n], a.write_cb, sig_MmioWriteHandler, a.user_data_write)
                    /\ m.wr = last.ret[n]
               ELSE m.wr = NULL
            /\ (rd /\ wr) => last.ret[1] # last.ret[2]

\* C16, the case reached: both targets present, the read one with user data
\* and the write one without, two handles returned
C16_MmioMapBoth ==
    /\ MmioMapped
    /\ last.args.read_cb # NoObj /\ last.args.user_data_read # NoObj
    /\ last.args.write_cb # NoObj /\ last.args.user_data_write = NoObj
    /\ Len(last.ret) = 2

\* the failure _mem_map_ptr writes itself
NotDirectBuffer ==
    [cls |-> "unicorn/UnicornException", msg |-> "mem_map_ptr requires a direct buffer"]

\* C17: a _mem_map_ptr whose buffer has a null native address or a negative
\* capacity raises the layer's own "requires a direct buffer" failure, makes
\* no call of uc_mem_map_ptr and leaves the engine's memory map as it was.
C17_MemMapPtrNeedsDirectBuffer ==
    [][(/\ last'.op = "mem_map_ptr"
        /\ (last'.size < 0 \/ last'.host_address = NULL))
       => /\ last'.exc = NotDirectBuffer
          /\ last'.calls = <<>>
          /\ engine'.mem = engine.mem]_vars

\* C17, the case reached: a buffer with an address but a negative capacity
\* was refused without a native call
C17_NegativeCapacityRefused ==
    /\ last.op = "mem_map_ptr"
    /\ last.size < 0
    /\ last.host_address # NULL
    /\ last.exc = NotDirectBuffer
    /\ last.calls = <<>>

\* the accessor the claim names for a selector and a direction
AccessorFor(op, isContext) ==
    IF op = "reg_read"
    THEN IF isContext # 0 THEN "uc_context_reg_read" ELSE "uc_reg_read"
    ELSE IF isContext # 0 THEN "uc_context_reg_write" ELSE "uc_reg_write"

\* C18: every register read and write entry point makes exactly one native
\* accessor call: the saved-context accessor when isContext is non-zero and
\* the live-engine accessor when it is zero, with the register id and the
\* buffer the entry point handed down; the other register file is untouched.
C18_OneAccessorByIsContext ==
    [][(last'.op \in {"reg_read", "reg_write"})
       => /\ Len(last'.calls) = 1
          /\ last'.calls[1] =
                NativeCall(AccessorFor(last'.op, last'.isContext), last'.regid, last'.buf)
          /\ IF last'.isContext # 0
             THEN engine'.regs = engine.regs
             ELSE engine'.ctx = engine.ctx
          /\ last'.op = "reg_read" => engine' = engine]_vars

\* C18, the case reached: a write with isContext = 2 went to the saved context
\* and the live register kept its value
C18_ContextWritten ==
    /\ last.op = "reg_write"
    /\ last.isContext = 2
    /\ last.err = "UC_ERR_OK"
    /\ last.calls = <<NativeCall("uc_context_reg_write", "UC_X86_REG_RAX", last.buf)>>
    /\ engine.ctx["UC_X86_REG_RAX"] = 1
    /\ engine.regs["UC_X86_REG_RAX"] = 0

\* the last call had a makeHookWrapper that returned null
BuildFailed == last.op \in {"hook_add", "mmio_map"} /\ last.build.fault # "-"

\* the failure makeHookWrapper raises when calloc fails
OutOfMemoryError ==
    [cls |-> "java/lang/OutOfMemoryError", msg |-> "Unable to allocate hook_wrapper"]

\* C19: when makeHookWrapper fails, at whatever step, each reference it had
\* acquired before that step was released exactly once and the storage was
\* freed exactly once by the time the entry point returns; when the step is
\* calloc, nothing was acquired and the failure it raises is the
\* OutOfMemoryError.
C19_FailedBuildReleasesOnce ==
    BuildFailed =>
        LET b == last.build IN
        IF b.fault = "calloc"
        THEN b.exc = OutOfMemoryError /\ b.acct = ZeroAcct
        ELSE /\ b.acct.fr = 1
             /\ b.acct.du = b.acct.nu /\ b.acct.dh = b.acct.nh /\ b.acct.dd = b.acct.nd
             /\ b.acct.nd = 0
             /\ b.fault = "ref_unicorn" => b.acct.nu = 0 /\ b.acct.nh = 0
             /\ b.fault = "ref_hook" => b.acct.nu = 1 /\ b.acct.nh = 0
             /\ b.fault \in {"class", "ref_user"} => b.acct.nu = 1 /\ b.acct.nh = 1
             /\ \A r \in RecIds : recs[r].st # "unalloc" => acct[r].out

\* C19, the case reached: NewGlobalRef of the user data failed inside
\* mmio_map after the engine facade and the callback were referenced, and
\* both were released again
C19_UserDataRefFailed ==
    /\ BuildFailed
    /\ last.op = "mmio_map"
    /\ last.build.fault = "ref_user"
    /\ last.build.acct.nu = 1 /\ last.build.acct.du = 1
    /\ last.build.acct.nh = 1 /\ last.build.acct.dh = 1
    /\ last.build.acct.fr = 1

\* C20: a trampoline that made a host call (it invoked the callback) had its
\* thread attached by its AttachCurrentThread before that call.
C20_AttachedBeforeHostCall ==
    (last.op = "dispatch" /\ last.invoked) => last.attach = "JNI_OK"

\* C20, the case reached: AttachCurrentThread failed, the trampoline went on
\* and the callback was invoked through the env it found
C20_HostCallUnattached ==
    /\ last.op = "dispatch"
    /\ last.attach = "JNI_ERR"
    /\ ~last.died
    /\ last.invoked

\* the handles the last call returned to its caller
ReturnedHandles ==
    IF last.op = "hook_add" /\ last.ret # NULL THEN {last.ret}
    ELSE IF last.op = "mmio_map" /\ last.ok THEN {last.ret[i] : i \in 1..Len(last.ret)}
    ELSE {}

\* C21: every record whose handle hook_add or mmio_map returns has in uc_hh
\* the handle of the engine registration that dispatches to it, which is what
\* _hook_del passes to uc_hook_del.
C21_ReturnedRecordKnowsItsRegistration ==
    \A h \in ReturnedHandles :
        \E g \in hooks : g.rec = h /\ g.hh = recs[h].uc_hh

\* C21, the case reached: mmio_map returned a read record that the mapping
\* dispatches to and whose uc_hh is still the zero calloc put there
C21_MmioRecordWithoutHandle ==
    /\ last.op = "mmio_map"
    /\ last.ok
    /\ Len(last.ret) >= 1
    /\ recs[last.ret[1]].uc_hh = 0
    /\ \E x \in Regions : mmio[x].mapped /\ mmio[x].rd = last.ret[1]
    /\ \A g \in hooks : g.rec # last.ret[1]

\* C22: under concurrent first use of one lazily cached constructor the class
\* is resolved exactly once, and no thread observes the static class cache
\* holding a value that is not the final global reference: a thread that finds
\* the cache filled finds the global reference there, and so does every call
\* that builds from the cache.
C22_FirstUseResolvesOnce ==
    /\ first_use.globals <= 1
    /\ \A t \in Threads :
        /\ first_use.seen[t] \in {<<"-", 0>>, NullRef, GlobalRef}
        /\ first_use.used[t] \in {<<"-", 0>>, GlobalRef}

\* C22, the case reached: a thread found the cache holding the local reference
\* another thread's FindClass had just stored, skipped resolution and handed
\* that reference to a JNI call.
C22_SawOtherThreadsLocalRef ==
    \E t \in Threads, u \in Threads :
        /\ t # u
        /\ first_use.seen[t] = LocalRef(u)
        /\ first_use.used[t] = LocalRef(u)
        /\ first_use.pc[t] = "returned"

\* the bits set in a hook type
TypeBits(type) == { b \in 0..17 : (type \div (2 ^ b)) % 2 = 1 }

\* the trampoline the range-only overload is to select for a type, "none"
\* when the type is to be rejected
RangeOnlyTrampoline(type) ==
    CASE type = UC_HOOK_INTR -> "cb_hookintr"
      [] type \in {UC_HOOK_CODE, UC_HOOK_BLOCK} -> "cb_hookcode"
      [] type # 0 /\ TypeBits(type) \subseteq TypeBits(UC_HOOK_MEM_INVALID) -> "cb_eventmem"
      [] type # 0 /\ TypeBits(type) \subseteq TypeBits(UC_HOOK_MEM_VALID) -> "cb_hookmem"
      [] type = UC_HOOK_INSN_INVALID -> "cb_hookinsn_invalid"
      [] type = UC_HOOK_EDGE_GENERATED -> "cb_edge_gen"
      [] type = UC_HOOK_TLB_FILL -> "cb_tlbevent"
      [] OTHER -> "none"

\* the callback method signature each of those trampolines is resolved with
RangeOnlySig(cb) ==
    CASE cb = "cb_hookintr" -> sig_InterruptHook
      [] cb = "cb_hookcode" -> sig_CodeHook
      [] cb = "cb_eventmem" -> sig_EventMemHook
      [] cb = "cb_hookmem" -> sig_MemHook
      [] cb = "cb_hookinsn_invalid" -> sig_InvalidInstructionHook
      [] cb = "cb_edge_gen" -> sig_EdgeGeneratedHook
      [] cb = "cb_tlbevent" -> sig_TlbFillHook

\* types the range-only overload is to reject: 0, a valid|invalid mix, two
\* shapes together, INSN, TCG_OPCODE
RangeOnlyRejects == { 0, 1040, 12, UC_HOOK_INSN, UC_HOOK_TCG_OPCODE }

\* C23: the range-only hook_add selects the interrupt trampoline for INTR,
\* the code trampoline for CODE and for BLOCK, the boolean veto trampoline for
\* a non-empty set of bits inside UC_HOOK_MEM_INVALID, the void memory
\* trampoline for a non-empty set of bits inside UC_HOOK_MEM_VALID, the matching
\* trampoline for INSN_INVALID, EDGE_GENERATED and TLB_FILL, and rejects 0,
\* mixes of shapes, INSN and TCG_OPCODE with UC_ERR_HOOK; what it registers
\* with the engine is the selected trampoline.
C23_RangeOnlySelection ==
    (last.op = "hook_add" /\ last.call.ov = 1) =>
        /\ last.sel = RangeOnlyTrampoline(last.call.type)
        /\ last.call.type \in RangeOnlyRejects => last.sel = "none"
        /\ last.sel = "none" =>
              last.exc = UnicornException("UC_ERR_HOOK") /\ last.ret = NULL
        /\ last.ret # NULL =>
              /\ \E g \in hooks :
                    g.rec = last.ret /\ g.cb = RangeOnlyTrampoline(last.call.type)
              /\ recs[last.ret].hook_meth = RangeOnlySig(last.sel)

\* C23, the case reached: one access bit inside UC_HOOK_MEM_VALID registered
\* with the void memory trampoline
C23_MemWriteAdded ==
    /\ last.op = "hook_add"
    /\ last.call.ov = 1
    /\ last.call.type = 2048
    /\ last.ret # NULL
    /\ \E g \in hooks : g.rec = last.ret /\ g.cb = "cb_hookmem"

\* the global references a record holds: acquired and not yet released
Held(a) == (a.nu - a.du) + (a.nh - a.dh) + (a.nd - a.dd)

\* a record that was registered and handed to the caller, and has been
\* neither detached by _hook_del nor freed
Attached(r) == acct[r].out /\ acct[r].dels = 0 /\ recs[r].st = "live"

RECURSIVE SumOver(_, _)
SumOver(f, S) ==
    IF S = {} THEN 0
    ELSE LET r == CHOOSE x \in S : TRUE IN f[r] + SumOver(f, S \ {r})

\* C24: after any sequence of hook_add, mmio_map, _hook_del and
\* _hookwrapper_free calls, failed ones included, the global references held
\* are 2 for every record that is registered and not detached, plus 1 where
\* user data was supplied, and nothing else: no reference is released twice
\* and a detached or freed record holds none.
C24_ReferenceAccounting ==
    /\ SumOver([r \in RecIds |-> Held(acct[r])], RecIds)
          = SumOver([r \in RecIds |-> IF Attached(r)
                                      THEN 2 + One(recs[r].user_data # NoObj)
                                      ELSE 0], RecIds)
    /\ \A r \in RecIds :
        /\ acct[r].du <= acct[r].nu
        /\ acct[r].dh <= acct[r].nh
        /\ acct[r].dd <= acct[r].nd
        /\ Attached(r) =>
              /\ acct[r].nu - acct[r].du = 1
              /\ acct[r].nh - acct[r].dh = 1
              /\ acct[r].nd - acct[r].dd = One(recs[r].user_data # NoObj)
        /\ ~Attached(r) => Held(acct[r]) = 0
    /\ (last.op = "mmio_map" /\ last.ok /\ last.args.read_cb # NoObj) =>
          acct[last.ret[1]].nd = One(last.args.user_data_read # NoObj)

\* C24, the case reached: _hook_del has just released the three references of
\* one record while another record, registered with user data, holds its three
C24_OneDetachedOneAttached ==
    /\ last.op = "hook_del"
    /\ last.released = 3
    /\ \E r \in RecIds :
          r # last.rec /\ Attached(r) /\ Held(acct[r]) = 3

\* a jint as the uint32_t with the same 32 bits, in two 16-bit halves
Uint32OfJint(v) ==
    IF v >= 0 THEN <<v \div 65536, v % 65536>>
    ELSE <<65535 - ((-v - 1) \div 65536), 65535 - ((-v - 1) % 65536)>>

\* the callback's result v as the native value trampoline cb hands the engine
NativeResult(cb, v) ==
    CASE cb \in {"cb_insn_in", "cb_insn_sys"} -> Uint32OfJint(v)
      [] cb = "cb_insn_cpuid" -> v
      [] cb \in {"cb_eventmem", "cb_hookinsn_invalid"} -> (v = 1)
      [] cb = "cb_tlbevent" -> (v # <<65535, 65535, 65535, 65535>>)
      [] cb = "cb_mmio_read" -> v
      [] OTHER -> "void"

\* a trampoline ran to its end and left no failure pending
DispatchedClean == last.op = "dispatch" /\ ~last.died /\ last.exc = NoExc

\* C25: a trampoline that ends with no failure pending has not called
\* uc_emu_stop, and when it invoked the host callback it returns the callback's
\* own result converted to the native type; for the TLB trampoline the result
\* that is not -1 is also what the entry's address and permissions add up to.
C25_NoStopWithoutFailure ==
    DispatchedClean =>
        /\ ~last.stop
        /\ last.invoked => last.ret = NativeResult(last.cb, last.host.ret)
        /\ (last.invoked /\ last.cb = "cb_tlbevent" /\ last.ret) =>
              /\ last.entry.written
              /\ \A i \in 1..3 : last.entry.paddr[i] = last.host.ret[i]
              /\ last.entry.paddr[4] + last.entry.perms = last.host.ret[4]
              /\ last.entry.paddr[4] % 8 = 0
              /\ last.entry.perms \in 0..7

\* C25, the case reached: the host callback of an IN hook returned -1 with
\* no failure and the trampoline handed 0xFFFFFFFF to the engine.
C25_InReturnedMinusOne ==
    /\ DispatchedClean
    /\ last.cb = "cb_insn_in"
    /\ last.invoked
    /\ last.host.ret = -1
    /\ last.ret = <<65535, 65535>>
    /\ ~last.stop
    /\ ~stop_req

====
